---- MODULE Spec2Model ----
(***************************************************************************)
(* The rename transaction engine of autotitle: Renamer.Execute (scan of    *)
(* the directory, backup, renames) and the backup Manager (Backup,         *)
(* Restore, Clean) over a small file system with hard links.               *)
(*                                                                         *)
(* A file name is the record of its parts,                                 *)
(*   [tag, ep, title, ext, w]   "[tag] S - 0ep - Ttitle.ext"               *)
(* with tag = "" for a name without a bracketed group, title = 0 for a     *)
(* name without an episode title and w the number of digits the episode    *)
(* number is written with.                                                 *)
(***************************************************************************)
EXTENDS Integers, Sequences, FiniteSets, TLC

\* ---------------------------------------------------------------- bounds
MaxEp     == 2    \* episode numbers of file names and of the media
MaxFiles  == 3    \* files in the directory when the model starts
MaxRuns   == 2    \* commands (Execute, Restore) started in one behaviour
MaxFaults == 1    \* I/O calls that fail in one behaviour
MaxCmds   == 3    \* commands started in one behaviour of the backup manager

\* ----------------------------------------------------------- file names
N(tag, ep, title, ext) ==
    [tag |-> tag, ep |-> ep, title |-> title, ext |-> ext, w |-> 2]

\* the name n with its episode number written in w digits
Wide(n, w) == [n EXCEPT !.w = w]

Eps == 1..MaxEp

PlainNames  == {N("", e, 0, "mkv") : e \in Eps}
TitledNames == {N("", e, e, "mkv") : e \in Eps}
\* two release groups' files of the first episode
TaggedNames == {N(t, 1, 0, "mkv") : t \in {"A", "B"}}
OtherNames  == {N("", 1, 0, "txt")}
\* the names a directory of the model starts with
StartNames  == PlainNames \cup TitledNames \cup TaggedNames \cup OtherNames
\* and the names a run can generate with three digits
WideNames   == {Wide(n, 3) : n \in PlainNames \cup TitledNames}
Names       == StartNames \cup WideNames

Absent == 0    \* no file at a name (inode numbers start at 1)

\* os.ReadDir returns the entries sorted by file name (byte order):
\* "S" < "[", the episode digits ("001" < "002" < "01"), " " (a title
\* follows) < "." (extension).
TagRank(t) == IF t = "" THEN 0 ELSE IF t = "A" THEN 1 ELSE 2
ExtRank(x) == IF x = "mkv" THEN 0 ELSE 1
NameRank(n) ==
    TagRank(n.tag) * 1000 + (IF n.w = 2 THEN 500 ELSE 0) + n.ep * 10
      + (IF n.title = 0 THEN 1 ELSE 0) * 2 + ExtRank(n.ext)

RECURSIVE SortNames(_)
SortNames(S) ==
    IF S = {} THEN << >>
    ELSE LET m == CHOOSE x \in S : \A y \in S : NameRank(x) <= NameRank(y)
         IN  <<m>> \o SortNames(S \ {m})

\* ------------------------------------------------- templates and target
TplTagged == "[{{ANY}}] {{SERIES}} - {{EP_NUM}}.{{EXT}}"
TplPlain  == "{{SERIES}} - {{EP_NUM}}.{{EXT}}"
TplTitled == "{{SERIES}} - {{EP_NUM}} - {{EP_NAME}}.{{EXT}}"
\* a template with a byte that is not UTF-8 (written <FF>): regexp.Compile
\* rejects the pattern built from it
TplInvalid == "{{SERIES}}<FF> - {{EP_NUM}}.{{EXT}}"

FieldsPlain  == <<"SERIES", "EP_NUM">>
FieldsTitled == <<"SERIES", "EP_NUM", "EP_NAME">>

\* a Go pointer (or an optional file) is Nil or the one-element tuple <<v>>
Nil == << >>
Ptr(v) == <<v>>
Deref(p) == p[1]

\* One pattern group that titles every file: two tagged files of one
\* episode generate the same name.
TargetTitled ==
    [Patterns |-> << [Input  |-> <<TplTagged, TplPlain, TplTitled>>,
                      Output |-> [Fields |-> FieldsTitled, Offset |-> 0,
                                  Padding |-> 0]] >>]

\* Two pattern groups: tagged files lose the tag, plain files move one
\* episode up, so a generated name can be the name of another file.
TargetShift ==
    [Patterns |-> << [Input  |-> <<TplTagged>>,
                      Output |-> [Fields |-> FieldsPlain, Offset |-> 0,
                                  Padding |-> 0]],
                     [Input  |-> <<TplPlain>>,
                      Output |-> [Fields |-> FieldsPlain, Offset |-> 1,
                                  Padding |-> 0]] >>]

\* One pattern group whose first template does not compile.
TargetPartly ==
    [Patterns |-> << [Input  |-> <<TplInvalid, TplPlain>>,
                      Output |-> [Fields |-> FieldsTitled, Offset |-> 0,
                                  Padding |-> 0]] >>]

\* No template compiles.
TargetInvalid ==
    [Patterns |-> << [Input  |-> <<TplInvalid>>,
                      Output |-> [Fields |-> FieldsTitled, Offset |-> 0,
                                  Padding |-> 0]] >>]

\* Two pattern groups: three digits for tagged files, automatic width for
\* the others.
TargetPadded ==
    [Patterns |-> << [Input  |-> <<TplTagged>>,
                      Output |-> [Fields |-> FieldsPlain, Offset |-> 0,
                                  Padding |-> 3]],
                     [Input  |-> <<TplPlain>>,
                      Output |-> [Fields |-> FieldsPlain, Offset |-> 0,
                                  Padding |-> 0]] >>]

\* Two pattern groups with different output token lists: plain files get the
\* episode title, tagged files do not.
TargetFields ==
    [Patterns |-> << [Input  |-> <<TplTagged>>,
                      Output |-> [Fields |-> FieldsPlain, Offset |-> 0,
                                  Padding |-> 0]],
                     [Input  |-> <<TplPlain>>,
                      Output |-> [Fields |-> FieldsTitled, Offset |-> 0,
                                  Padding |-> 0]] >>]

\* Two pattern groups, the first of which declares a template that does not
\* compile before one that does.
TargetMisaligned ==
    [Patterns |-> << [Input  |-> <<TplInvalid, TplTagged>>,
                      Output |-> [Fields |-> FieldsPlain, Offset |-> 0,
                                  Padding |-> 0]],
                     [Input  |-> <<TplPlain>>,
                      Output |-> [Fields |-> FieldsPlain, Offset |-> 1,
                                  Padding |-> 3]] >>]

\* the targets and per-call offset overrides (Renamer.WithOffset) of the model
Configs == {<<TargetTitled, Nil>>, <<TargetShift, Nil>>, <<TargetShift, Ptr(0)>>}

\* <<DryRun, NoBackup, BackupConfig.Enabled>> of one Execute: a real run with
\* backup, a dry run, and a real run with the backup switched off either way
FlagChoices == {<<FALSE, FALSE, TRUE>>, <<TRUE, FALSE, TRUE>>,
                <<FALSE, TRUE, TRUE>>, <<FALSE, FALSE, FALSE>>}

Formats == <<"mkv">>

Media == [Episodes     |-> [i \in Eps |-> [Number |-> i, Title |-> i]],
          EpisodeCount |-> MaxEp]

\* a Media whose last episode has a number of three digits
MediaLong ==
    [Episodes     |-> [i \in 1..(MaxEp + 1) |->
                         IF i <= MaxEp THEN [Number |-> i, Title |-> i]
                         ELSE [Number |-> 100, Title |-> 100]],
     EpisodeCount |-> MaxEp + 1]

\* Media.GetEpisode: the episode with that number, or Nil
GetEpisode(media, num) ==
    IF \E i \in DOMAIN media.Episodes : media.Episodes[i].Number = num
    THEN Ptr(media.Episodes[CHOOSE i \in DOMAIN media.Episodes :
                               media.Episodes[i].Number = num])
    ELSE Nil

\* Renamer.isVideoFile
isVideoFile(ext) == \E i \in DOMAIN Formats : ext = Formats[i]

\* matcher.Compile: the templates of valid text compile
Compiles(tpl) == tpl \in {TplTagged, TplPlain, TplTitled}

\* Pattern.MatchTyped: the anchored pattern must consume the whole base
\* name; {{SERIES}} is free text and takes a bracketed group with it.
Matches(tpl, name) ==
    CASE tpl = TplTagged -> name.tag # "" /\ name.title = 0
      [] tpl = TplPlain  -> name.title = 0
      [] tpl = TplTitled -> name.title # 0
      [] OTHER           -> FALSE

MatchTyped(tpl, name) ==
    IF Matches(tpl, name)
    THEN [ok |-> TRUE, EpisodeNum |-> name.ep, Extension |-> name.ext]
    ELSE [ok |-> FALSE, EpisodeNum |-> 0, Extension |-> ""]

\* Renamer.compilePatterns: the templates that compile, in declaration order
RECURSIVE FlatInputs(_, _)
FlatInputs(tgt, i) ==
    IF i > Len(tgt.Patterns) THEN << >>
    ELSE tgt.Patterns[i].Input \o FlatInputs(tgt, i + 1)

compilePatterns(tgt) == SelectSeq(FlatInputs(tgt, 1), Compiles)

\* the pattern group that declares the k-th input of the target
RECURSIVE GroupOfInput(_, _, _)
GroupOfInput(tgt, i, k) ==
    IF k <= Len(tgt.Patterns[i].Input) THEN i
    ELSE GroupOfInput(tgt, i + 1, k - Len(tgt.Patterns[i].Input))

\* variant: the last pattern that matches wins
LastMatch(tgt, filename) ==
    LET patterns == compilePatterns(tgt)
        total    == Len(FlatInputs(tgt, 1))
        hits     == {k \in 1..total :
                        k <= Len(patterns) /\ Matches(patterns[k], filename)}
    IN  IF hits = {} THEN [found |-> FALSE, group |-> 0, result |-> Nil]
        ELSE LET k == CHOOSE h \in hits : \A g \in hits : h >= g
             IN  [found  |-> TRUE,
                  group  |-> GroupOfInput(tgt, 1, k),
                  result |-> MatchTyped(patterns[k], filename)]

\* Execute's matcher loop: patIdx runs over the declared inputs and indexes
\* the list of compiled patterns; the first pattern that matches wins.
FirstMatch(tgt, filename) ==
    LET patterns == compilePatterns(tgt)
        total    == Len(FlatInputs(tgt, 1))
        hits     == {k \in 1..total :
                        k <= Len(patterns) /\ Matches(patterns[k], filename)}
    IN  IF hits = {} THEN [found |-> FALSE, group |-> 0, result |-> Nil]
        ELSE LET k == CHOOSE h \in hits : \A g \in hits : h <= g
             IN  [found  |-> TRUE,
                  group  |-> GroupOfInput(tgt, 1, k),
                  result |-> MatchTyped(patterns[k], filename)]

\* variant: an override of 0 counts as no override
MatchResultOffsetZeroUnset(globalOffset, pattern) ==
    IF globalOffset # Nil /\ Deref(globalOffset) # 0 THEN Deref(globalOffset)
    ELSE IF pattern # Nil THEN Deref(pattern).Output.Offset
    ELSE 0

\* renamer.MatchResultOffset
MatchResultOffset(globalOffset, pattern) ==
    IF globalOffset # Nil THEN Deref(globalOffset)
    ELSE IF pattern # Nil THEN Deref(pattern).Output.Offset
    ELSE 0

\* len(fmt.Sprintf("%d", n)) for the numbers of the model
Digits(n) == IF n < 10 THEN 1 ELSE IF n < 100 THEN 2 ELSE IF n < 1000 THEN 3 ELSE 4

\* matcher.padNumber: the number of digits EP_NUM is written with
padNumber(num, width) == IF Digits(num) >= width THEN Digits(num) ELSE width

\* matcher.GenerateFilenameFromFields: the emitted values in field order,
\* then "." and the extension
GenerateFilenameFromFields(fields, vars, padding) ==
    LET has(f) == \E i \in DOMAIN fields : fields[i] = f
        width  == IF padding <= 0 THEN 3 ELSE padding
    IN  Wide(N("",
               IF has("EP_NUM") THEN vars.EpNum ELSE 0,
               IF has("EP_NAME") THEN vars.EpName ELSE 0,
               vars.Ext),
             padNumber(vars.EpNum, width))

\* ------------------------------------------------------------ file system
Inodes == 1..(MaxFiles * (MaxRuns + 1))

D(n) == <<"dir", n>>    \* the file n of the directory
B(n) == <<"bak", n>>    \* the file n of the directory's backup directory
Paths == {"dir", "bak"} \X Names

ThisDir  == "dir"
OtherDir == "other"     \* another source directory with a backup on record
ThirdDir == "third"     \* the source directory of a second invocation

VARIABLES
    files,           \* Paths -> inode, or Absent
    content,         \* inode -> content (0: empty file)
    bdir,            \* the backup directory exists
    manifest,        \* mappings.json of the backup directory, or Nil
    registry,        \* backup_registry.json: sequence of BackupRecord
    linkOK,          \* the file system supports hard links
    target,          \* the resolved Target of the directory
    Offset,          \* Renamer.Offset: Nil or the per-call override
    DryRun, NoBackup, Enabled,   \* Renamer flags of the current Execute
    pc,              \* position of the running command
    entries, idx,    \* Execute: directory listing and loop index
    operations,      \* Execute: []RenameOperation
    renameMappings,  \* Execute: old name -> new name, as a set of pairs
    events,          \* events emitted by the current Execute
    todo,            \* Backup / Restore: map entries not yet visited
    ret,             \* result of the last command: "none", "ok", "err"
    lastCmd,         \* the last command that was started
    prevCmd,         \* the command that ran before it
    runs, faults,    \* commands started, I/O failures so far
    ioErr,           \* the I/O calls that failed in the current command
    undone,          \* Restore: <<old, content of its backup copy>> when Clean starts
    pre,             \* the directory and the backup state when Execute started
    planned,         \* operations as they leave Execute's scan loop
    backupRet,       \* result of Backup in the current Execute
    backupCalls,     \* calls of Backup in the current Execute
    backupArg,       \* mappings handed to Backup in the current Execute
    renameCalls,     \* os.Rename calls of the current Execute, in order
    prevPlan,        \* plan and warnings of the Execute before the current one
    prevRun,         \* flags and outcome of the command before the current Execute
    media,           \* the Media of the directory
    budget,          \* commands one behaviour may start
    otherBdir,       \* the backup directory of OtherDir exists
    otherPc,         \* position of a second invocation of the tool
    otherRead,       \* the registry records the second invocation has read
    args,            \* matcher: the arguments of the call being evaluated
    loop,            \* matcher: the locals of the call being evaluated, or Nil
    result           \* matcher: Nil, or the value the call returned

vars == <<files, content, bdir, manifest, registry, linkOK, target, Offset,
          DryRun, NoBackup, Enabled, pc, entries, idx, operations,
          renameMappings, events, todo, ret, lastCmd, prevCmd, runs, faults,
          ioErr, undone, pre, planned, backupRet, backupCalls, backupArg, renameCalls,
          prevPlan, prevRun, media, budget, otherBdir, otherPc, otherRead,
          args, loop, result>>

fsVars   == <<files, content, bdir, manifest, registry>>
cfgVars  == <<linkOK, target, Offset, media, budget>>
envVars  == <<otherBdir, otherPc, otherRead>>
callVars == <<args, loop, result>>
flagVars == <<DryRun, NoBackup, Enabled>>
execVars == <<entries, idx, operations, renameMappings, events, planned,
              backupRet, backupCalls, backupArg, renameCalls, pre, prevPlan,
              prevRun>>

Used(f) == {f[p] : p \in Paths} \ {Absent}

\* an inode number no path refers to
Fresh(f) == CHOOSE i \in Inodes : i \notin Used(f) /\ \A j \in Inodes : j < i => j \in Used(f)

\* the content of an inode without a name is gone
Norm(f, c) == [i \in Inodes |-> IF i \in Used(f) THEN c[i] ELSE 0]

\* what a listing with contents of the directory shows: -1 for no file
View(f, c) == [n \in Names |-> IF f[D(n)] = Absent THEN -1 ELSE c[f[D(n)]]]

\* the directory listing with contents, and the backup directory, its
\* manifest and the registry
Snapshot == [view |-> View(files, content), bdir |-> bdir, manifest |-> manifest,
             registry |-> registry,
             backup |-> {n \in Names : files[B(n)] # Absent}]

\* an I/O call may fail while the fault budget lasts
FaultChoices == IF faults < MaxFaults THEN {FALSE, TRUE} ELSE {FALSE}
Charge(fail, call) ==
    /\ faults' = IF fail THEN faults + 1 ELSE faults
    /\ ioErr' = IF fail THEN Append(ioErr, call) ELSE ioErr

\* backup.copyFile: hard link first, else open src, create (truncate) dst
\* and copy the bytes.  fail: neither the link nor the open succeeds.
copyFile(f, c, src, dst, fail) ==
    IF fail THEN [err |-> TRUE, files |-> f, content |-> c]
    ELSE IF linkOK /\ f[src] # Absent /\ f[dst] = Absent
    THEN [err |-> FALSE, files |-> [f EXCEPT ![dst] = f[src]], content |-> c]
    ELSE IF f[src] = Absent
    THEN [err |-> TRUE, files |-> f, content |-> c]
    ELSE LET out == IF f[dst] = Absent THEN Fresh(f) ELSE f[dst]
             f1  == [f EXCEPT ![dst] = out]
             c1  == [c EXCEPT ![out] = 0]          \* os.Create truncates
             c2  == [c1 EXCEPT ![out] = c1[f[src]]] \* io.Copy
         IN  [err |-> FALSE, files |-> f1, content |-> c2]

\* os.Rename: the source must exist; an existing destination is replaced;
\* two names of one inode are left as they are
osRename(f, src, dst, fail) ==
    IF fail \/ f[src] = Absent THEN [err |-> TRUE, files |-> f]
    ELSE IF f[src] = f[dst] THEN [err |-> FALSE, files |-> f]
    ELSE [err |-> FALSE, files |-> [f EXCEPT ![dst] = f[src], ![src] = Absent]]

\* os.RemoveAll(backupPath)
RemoveAllBackup(f) == [p \in Paths |-> IF p[1] = "bak" THEN Absent ELSE f[p]]

\* variant: the registry is rewritten without any record
removeFromRegistryAll(reg, sourceDir) == << >>

\* Manager.removeFromRegistry / Manager.addRegistry (ListAll, then saveRegistry)
removeFromRegistry(reg, sourceDir) ==
    SelectSeq(reg, LAMBDA r : r.SourceDir # sourceDir)

addRegistry(reg, record) == Append(reg, record)

BackupRecord(dir) == [Path |-> <<dir, ".autotitle_backup">>, SourceDir |-> dir]

InitialDirs == {S \in SUBSET StartNames : Cardinality(S) >= 1 /\ Cardinality(S) <= MaxFiles}

InitFiles(S) ==
    LET sorted == SortNames(S)
    IN  [p \in Paths |->
            IF p[1] = "dir" /\ p[2] \in S
            THEN CHOOSE i \in 1..Len(sorted) : sorted[i] = p[2]
            ELSE Absent]

\* the state before the first command: a directory of dirs, a target and
\* offset override of configs, a Media of medias, cmds commands to run
InitState(dirs, configs, medias, cmds, calls) ==
    /\ \E S \in dirs :
         /\ files = InitFiles(S)
         /\ content = [i \in Inodes |-> IF i <= Cardinality(S) THEN i ELSE 0]
    /\ bdir = FALSE
    /\ manifest = Nil
    /\ registry = <<BackupRecord(OtherDir)>>
    /\ otherBdir = TRUE
    /\ otherPc = "idle" /\ otherRead = Nil
    /\ linkOK \in BOOLEAN
    /\ \E tc \in configs : target = tc[1] /\ Offset = tc[2]
    /\ media \in medias
    /\ budget = cmds
    /\ DryRun = FALSE /\ NoBackup = FALSE /\ Enabled = TRUE
    /\ pc = "idle"
    /\ entries = << >> /\ idx = 1
    /\ operations = << >>
    /\ renameMappings = {}
    /\ events = << >>
    /\ todo = {}
    /\ ret = "none" /\ lastCmd = "none" /\ prevCmd = "none"
    /\ runs = 0 /\ faults = 0
    /\ ioErr = << >> /\ undone = {}
    /\ pre = Snapshot
    /\ planned = << >>
    /\ backupRet = "none" /\ backupCalls = 0 /\ backupArg = {}
    /\ renameCalls = << >>
    /\ prevPlan = Nil
    /\ prevRun = Nil
    /\ args \in calls /\ loop = Nil /\ result = Nil

InitWith(dirs, configs, medias, cmds) == InitState(dirs, configs, medias, cmds, {Nil})

Init == InitWith(InitialDirs, Configs, {Media}, MaxRuns)

\* ---------------------------------------------------------------- Execute
Emit(type, msg, file) == Append(events, [Type |-> type, Message |-> msg, File |-> file])

\* the entries os.ReadDir returns: the backup directory (if any), then the
\* files by name
ReadDir(f, hasBackupDir) ==
    (IF hasBackupDir THEN <<[IsDir |-> TRUE, Name |-> N("", 0, 0, "")]>> ELSE << >>)
    \o [i \in 1..Cardinality({n \in Names : f[D(n)] # Absent}) |->
          [IsDir |-> FALSE, Name |-> SortNames({n \in Names : f[D(n)] # Absent})[i]]]

\* what the caller keeps of a finished Execute: per operation the source, the
\* target and whether it is Skipped, and the warning and skip events
PlanOf(ops, evs) ==
    [ops  |-> [i \in DOMAIN ops |->
                 [SourcePath |-> ops[i].SourcePath, TargetPath |-> ops[i].TargetPath,
                  Skipped |-> ops[i].Status = "skipped"]],
     skips |-> SelectSeq(evs, LAMBDA e :
                 e.Type = "warning" \/ e.Message = "Skipped (unchanged)")]

\* variant: one template that does not compile is fatal
CompileOutcomeStrict(tgt) ==
    LET inputs == FlatInputs(tgt, 1)
        failed == \E k \in DOMAIN inputs : ~Compiles(inputs[k])
    IN  [warning |-> failed, fatal |-> failed]

\* Execute after compilePatterns: a warning when a template failed, and
\* the error "no valid patterns found" when none is left
CompileOutcome(tgt) ==
    LET inputs == FlatInputs(tgt, 1)
        failed == \E k \in DOMAIN inputs : ~Compiles(inputs[k])
    IN  [warning |-> failed, fatal |-> failed /\ Len(compilePatterns(tgt)) = 0]

\* Execute up to the scan loop (ReadDir, compilePatterns)
ExecuteStart ==
    /\ pc = "idle" /\ runs < budget
    /\ \E fl \in FlagChoices :
         /\ DryRun' = fl[1] /\ NoBackup' = fl[2] /\ Enabled' = fl[3]
    /\ runs' = runs + 1
    /\ prevCmd' = lastCmd /\ lastCmd' = "Execute"
    /\ prevPlan' = IF lastCmd = "Execute" /\ pre.view = View(files, content)
                   THEN Ptr([plan |-> PlanOf(planned, events), dry |-> DryRun])
                   ELSE Nil
    /\ prevRun' = Ptr([cmd |-> lastCmd, flags |-> <<DryRun, NoBackup, Enabled>>,
                       ok |-> /\ ret = "ok" /\ ioErr = << >>
                              /\ \A i \in DOMAIN operations :
                                    operations[i].Status \in {"success", "skipped"},
                       renamed |-> \E i \in DOMAIN operations :
                                    operations[i].Status = "success"])
    /\ pre' = Snapshot
    /\ ioErr' = << >>
    /\ entries' = ReadDir(files, bdir) /\ idx' = 1
    /\ operations' = << >> /\ renameMappings' = {}
    /\ events' = IF CompileOutcome(target).warning
                 THEN <<[Type |-> "warning", Message |-> "Invalid pattern",
                         File |-> N("", 0, 0, "")]>>
                 ELSE << >>
    /\ planned' = << >>
    /\ backupRet' = "none" /\ backupCalls' = 0 /\ backupArg' = {}
    /\ renameCalls' = << >>
    /\ IF CompileOutcome(target).fatal
       THEN pc' = "idle" /\ ret' = "err"
       ELSE pc' = "scan" /\ ret' = "none"
    /\ UNCHANGED <<fsVars, cfgVars, callVars, envVars, todo, faults, undone>>

\* variant: the unchanged check is missing
PlanStatusNeverSkips(sourcePath, targetPath) == "pending"

\* variant: the unchanged check is left out of a dry run
PlanStatusDryAll(sourcePath, targetPath) ==
    IF ~DryRun /\ sourcePath = targetPath THEN "skipped" ELSE "pending"

\* "sourcePath == targetPath": the status Execute gives the operation it
\* has built
PlanStatus(sourcePath, targetPath) ==
    IF sourcePath = targetPath THEN "skipped" ELSE "pending"

\* Renamer.calculateSmartPadding
RECURSIVE MaxNumber(_, _, _)
MaxNumber(episodes, i, maxEp) ==
    IF i > Len(episodes) THEN maxEp
    ELSE MaxNumber(episodes, i + 1,
                   IF episodes[i].Number > maxEp THEN episodes[i].Number ELSE maxEp)

calculateSmartPadding(md) ==
    LET digits == Digits(MaxNumber(md.Episodes, 1, md.EpisodeCount))
    IN  IF digits > 2 THEN digits ELSE 2

\* the padding Execute hands to the generator for a file of that pattern
PaddingOf(tgt, matchPattern, smartPadding) ==
    LET outputCfg == tgt.Patterns[1].Output
        padding   == IF matchPattern.Output.Padding # 0
                     THEN matchPattern.Output.Padding
                     ELSE outputCfg.Padding
    IN  IF padding = 0 THEN smartPadding ELSE padding

\* the body of Execute's loop for one video file, up to the operation:
\* first matching pattern, padding, offset, episode lookup, generated name
Resolve(tgt, globalOffset, filename) ==
    LET m            == FirstMatch(tgt, filename)
        matchPattern == tgt.Patterns[m.group]
        outputCfg    == tgt.Patterns[1].Output
        padding      == PaddingOf(tgt, matchPattern, calculateSmartPadding(media))
        offset       == MatchResultOffset(globalOffset, Ptr(matchPattern))
        episodeNum   == m.result.EpisodeNum + offset
        ep           == GetEpisode(media, episodeNum)
        tvars        == [EpNum |-> Deref(ep).Number, EpName |-> Deref(ep).Title,
                         Ext |-> m.result.Extension]
        newFilename  == GenerateFilenameFromFields(outputCfg.Fields, tvars, padding)
    IN  IF ~m.found THEN [kind |-> "No pattern matched"]
        ELSE IF ep = Nil THEN [kind |-> "Episode not found in database"]
        ELSE [kind |-> "op",
              op   |-> [SourcePath |-> filename, TargetPath |-> newFilename,
                        Episode |-> Deref(ep).Number,
                        Status |-> PlanStatus(filename, newFilename),
                        Error |-> ""]]

\* one iteration of Execute's loop over the directory entries
ScanEntry ==
    /\ pc = "scan" /\ idx <= Len(entries)
    /\ idx' = idx + 1
    /\ LET entry    == entries[idx]
           filename == entry.Name
           r        == Resolve(target, Offset, filename)
       IN  IF entry.IsDir \/ ~isVideoFile(filename.ext)
           THEN UNCHANGED <<operations, renameMappings, events>>
           ELSE IF r.kind # "op"
           THEN /\ events' = Emit("warning", r.kind, filename)
                /\ UNCHANGED <<operations, renameMappings>>
           ELSE /\ operations' = Append(operations, r.op)
                /\ IF r.op.Status = "skipped"
                   THEN /\ events' = Emit("info", "Skipped (unchanged)", filename)
                        /\ UNCHANGED renameMappings
                   ELSE /\ renameMappings' =
                              {q \in renameMappings : q[1] # filename}
                              \cup {<<filename, r.op.TargetPath>>}
                        /\ events' = IF DryRun
                                     THEN Emit("info", "[DRY-RUN]", filename)
                                     ELSE events
    /\ UNCHANGED <<fsVars, cfgVars, callVars, envVars, flagVars, pc, entries, todo, ret, lastCmd,
                   prevCmd, runs, faults, ioErr, undone, pre, planned, backupRet,
                   backupCalls, backupArg, renameCalls, prevPlan, prevRun>>

\* Renamer.performBackup up to the call of Backup
shouldBackup == ~DryRun /\ ~NoBackup /\ Enabled

PerformBackup ==
    /\ pc = "scan" /\ idx > Len(entries)
    /\ planned' = operations
    /\ IF shouldBackup /\ renameMappings # {}
       THEN /\ events' = Emit("info", "Creating backup...", N("", 0, 0, ""))
            /\ backupCalls' = backupCalls + 1
            /\ backupArg' = renameMappings
            /\ pc' = "Backup.Clean"
       ELSE /\ pc' = "performRenames"
            /\ UNCHANGED <<events, backupCalls, backupArg>>
    /\ idx' = 1
    /\ UNCHANGED <<fsVars, cfgVars, callVars, envVars, flagVars, entries, operations, renameMappings,
                   todo, ret, lastCmd, prevCmd, runs, faults, ioErr, undone, pre,
                   backupRet, renameCalls, prevPlan, prevRun>>

\* ----------------------------------------------------------------- Manager
\* Manager.Clean: RemoveAll of the backup directory, then removeFromRegistry.
\* fail is "none", "RemoveAll" or "saveRegistry".
Clean(f, c, reg, fail) ==
    IF fail = "RemoveAll"
    THEN [err |-> TRUE, files |-> f, content |-> c, bdir |-> bdir,
          manifest |-> manifest, registry |-> reg]
    ELSE [err      |-> fail = "saveRegistry",
          files    |-> RemoveAllBackup(f),
          content  |-> Norm(RemoveAllBackup(f), c),
          bdir     |-> FALSE,
          manifest |-> Nil,
          registry |-> IF fail = "saveRegistry" THEN reg
                       ELSE removeFromRegistry(reg, ThisDir)]

CleanFaults == IF faults < MaxFaults THEN {"none", "RemoveAll", "saveRegistry"}
               ELSE {"none"}

\* variant: Execute drops the error of performBackup and goes on
BackupErrorIgnored(msg) ==
    /\ backupRet' = msg
    /\ pc' = "performRenames"
    /\ UNCHANGED <<ret, operations>>

\* Execute returns nil and the error of performBackup
BackupFailed(msg) ==
    /\ backupRet' = msg
    /\ ret' = "err"
    /\ operations' = << >>
    /\ pc' = "idle"

\* Backup: "_ = m.Clean(ctx, dir)"
BackupClean ==
    /\ pc = "Backup.Clean"
    /\ \E fail \in CleanFaults :
         LET r == Clean(files, content, registry, fail)
         IN  /\ files' = r.files /\ content' = r.content /\ bdir' = r.bdir
             /\ manifest' = r.manifest /\ registry' = r.registry
             /\ Charge(fail # "none", fail)
    /\ pc' = "Backup.MkdirAll"
    /\ UNCHANGED <<cfgVars, callVars, envVars, flagVars, execVars, todo, ret, lastCmd, prevCmd, runs,
                   undone>>

\* Backup: os.MkdirAll(backupPath)
BackupMkdirAll ==
    /\ pc = "Backup.MkdirAll"
    /\ \E fail \in FaultChoices :
         /\ Charge(fail, "MkdirAll")
         /\ IF fail
            THEN /\ BackupFailed("failed to create backup dir")
                 /\ UNCHANGED <<bdir, todo>>
            ELSE /\ bdir' = TRUE
                 /\ todo' = {q[1] : q \in renameMappings}
                 /\ pc' = "Backup.copy"
                 /\ UNCHANGED <<backupRet, ret, operations>>
    /\ UNCHANGED <<files, content, manifest, registry, cfgVars, callVars, envVars, flagVars, entries,
                   idx, renameMappings, events, lastCmd, prevCmd, runs, pre,
                   planned, backupCalls, backupArg, renameCalls, prevPlan, prevRun, undone>>

\* variant: a file that cannot be copied is left out and the loop goes on
BackupCopySkipsFile ==
    /\ pc = "Backup.copy" /\ todo # {}
    /\ \E oldName \in todo, fail \in FaultChoices :
         LET r == copyFile(files, content, D(oldName), B(oldName), fail)
         IN  /\ Charge(fail, "copyFile")
             /\ files' = r.files
             /\ content' = Norm(r.files, r.content)
             /\ IF r.err
                THEN /\ todo' = todo \ {oldName}
                     /\ UNCHANGED <<pc, backupRet, ret, operations>>
                ELSE /\ todo' = todo \ {oldName}
                     /\ UNCHANGED <<pc, backupRet, ret, operations>>
    /\ UNCHANGED <<bdir, manifest, registry, cfgVars, callVars, envVars, flagVars, entries, idx,
                   renameMappings, events, lastCmd, prevCmd, runs, pre, planned,
                   backupCalls, backupArg, renameCalls, prevPlan, prevRun, undone>>

\* Backup: one iteration of "for oldName := range mappings" (any order)
BackupCopy ==
    /\ pc = "Backup.copy" /\ todo # {}
    /\ \E oldName \in todo, fail \in FaultChoices :
         LET r == copyFile(files, content, D(oldName), B(oldName), fail)
         IN  /\ Charge(fail, "copyFile")
             /\ files' = r.files
             /\ content' = Norm(r.files, r.content)
             /\ IF r.err
                THEN /\ BackupFailed("failed to backup file")
                     /\ UNCHANGED todo
                ELSE /\ todo' = todo \ {oldName}
                     /\ UNCHANGED <<pc, backupRet, ret, operations>>
    /\ UNCHANGED <<bdir, manifest, registry, cfgVars, callVars, envVars, flagVars, entries, idx,
                   renameMappings, events, lastCmd, prevCmd, runs, pre, planned,
                   backupCalls, backupArg, renameCalls, prevPlan, prevRun, undone>>

\* Backup: os.WriteFile(mappingsPath, mappingsData)
BackupWriteMappings ==
    /\ pc = "Backup.copy" /\ todo = {}
    /\ \E fail \in FaultChoices :
         /\ Charge(fail, "WriteFile")
         /\ IF fail
            THEN /\ BackupFailed("failed to write mappings file")
                 /\ UNCHANGED manifest
            ELSE /\ manifest' = Ptr(renameMappings)
                 /\ pc' = "Backup.addRegistry"
                 /\ UNCHANGED <<backupRet, ret, operations>>
    /\ UNCHANGED <<files, content, bdir, registry, cfgVars, callVars, envVars, flagVars, entries, idx,
                   renameMappings, events, todo, lastCmd, prevCmd, runs, pre,
                   planned, backupCalls, backupArg, renameCalls, prevPlan, prevRun, undone>>

\* Backup: "return m.addRegistry(record)", and performBackup's return
BackupAddRegistry ==
    /\ pc = "Backup.addRegistry"
    /\ \E fail \in FaultChoices :
         /\ Charge(fail, "saveRegistry")
         /\ IF fail
            THEN /\ BackupFailed("saveRegistry")
                 /\ UNCHANGED registry
            ELSE /\ registry' = addRegistry(registry, BackupRecord(ThisDir))
                 /\ backupRet' = "ok"
                 /\ pc' = "performRenames"
                 /\ UNCHANGED <<ret, operations>>
    /\ UNCHANGED <<files, content, bdir, manifest, cfgVars, callVars, envVars, flagVars, entries, idx,
                   renameMappings, events, todo, lastCmd, prevCmd, runs, pre,
                   planned, backupCalls, backupArg, renameCalls, prevPlan, prevRun, undone>>

\* ---------------------------------------------------------- performRenames
\* variant: performRenames does not look at the status
AttemptsAll(op) == ~DryRun

\* does performRenames call os.Rename for this operation
Attempts(op) == op.Status # "skipped" /\ ~DryRun

\* variant: the first failed rename ends the loop
AfterRenameAbort(i, err) == IF err THEN Len(operations) + 1 ELSE i + 1

\* the loop index after an os.Rename call: the loop goes on either way
AfterRename(i, err) == i + 1

\* one iteration of performRenames' loop
RenameStep ==
    /\ pc = "performRenames" /\ idx <= Len(operations)
    /\ LET op == operations[idx]
       IN  IF ~Attempts(op)
           THEN /\ idx' = idx + 1
                /\ UNCHANGED <<files, content, operations, events, renameCalls,
                               faults, ioErr>>
           ELSE \E fail \in FaultChoices :
                  LET r == osRename(files, D(op.SourcePath), D(op.TargetPath), fail)
                  IN  /\ Charge(fail, "Rename")
                      /\ idx' = AfterRename(idx, r.err)
                      /\ files' = r.files
                      /\ content' = Norm(r.files, content)
                      /\ renameCalls' = Append(renameCalls,
                            [src |-> op.SourcePath, dst |-> op.TargetPath,
                             err |-> r.err,
                             replaced |-> ~r.err /\ files[D(op.TargetPath)] # Absent
                                          /\ files[D(op.TargetPath)] # files[D(op.SourcePath)]])
                      /\ IF r.err
                         THEN /\ operations' = [operations EXCEPT
                                     ![idx].Status = "failed", ![idx].Error = "rename"]
                              /\ events' = Emit("error", "Failed", op.SourcePath)
                         ELSE /\ operations' = [operations EXCEPT ![idx].Status = "success"]
                              /\ events' = Emit("success", "Renamed", op.SourcePath)
    /\ UNCHANGED <<bdir, manifest, registry, cfgVars, callVars, envVars, flagVars, pc, entries,
                   renameMappings, todo, ret, lastCmd, prevCmd, runs, pre, planned,
                   backupRet, backupCalls, backupArg, prevPlan, prevRun, undone>>

\* "return operations, nil"
ExecuteReturn ==
    /\ pc = "performRenames" /\ idx > Len(operations)
    /\ pc' = "idle" /\ ret' = "ok"
    /\ UNCHANGED <<fsVars, cfgVars, callVars, envVars, flagVars, execVars, todo, lastCmd, prevCmd,
                   runs, faults, ioErr, undone>>

\* ----------------------------------------------------------------- Restore
\* variant: a directory without mappings.json has nothing to undo
RestoreStartNothingToDo ==
    /\ pc = "idle" /\ runs < budget
    /\ runs' = runs + 1
    /\ prevCmd' = lastCmd /\ lastCmd' = "Restore"
    /\ ioErr' = << >> /\ undone' = {}
    /\ IF manifest = Nil
       THEN /\ ret' = "ok"
            /\ UNCHANGED <<pc, todo>>
       ELSE /\ ret' = "none"
            /\ todo' = Deref(manifest)
            /\ pc' = "Restore.loop"
    /\ UNCHANGED <<fsVars, cfgVars, callVars, envVars, flagVars, execVars, faults>>

\* Restore up to the loop: read and parse mappings.json
RestoreStart ==
    /\ pc = "idle" /\ runs < budget
    /\ runs' = runs + 1
    /\ prevCmd' = lastCmd /\ lastCmd' = "Restore"
    /\ ioErr' = << >> /\ undone' = {}
    /\ IF manifest = Nil
       THEN /\ ret' = "err"
            /\ UNCHANGED <<pc, todo>>
       ELSE /\ ret' = "none"
            /\ todo' = Deref(manifest)
            /\ pc' = "Restore.loop"
    /\ UNCHANGED <<fsVars, cfgVars, callVars, envVars, flagVars, execVars, faults>>

\* Restore: one iteration of "for oldName, newName := range mappings"
RestoreStep ==
    /\ pc = "Restore.loop" /\ todo # {}
    /\ \E q \in todo, fail \in FaultChoices :
         LET oldName == q[1]
             newName == q[2]
             f1 == IF files[D(newName)] # Absent
                   THEN [files EXCEPT ![D(newName)] = Absent]
                   ELSE files
             r  == copyFile(f1, content, B(oldName), D(oldName), fail)
         IN  /\ Charge(fail, "copyFile")
             /\ files' = r.files
             /\ content' = Norm(r.files, r.content)
             /\ IF r.err
                THEN /\ ret' = "err" /\ pc' = "idle"
                     /\ UNCHANGED todo
                ELSE /\ todo' = todo \ {q}
                     /\ UNCHANGED <<ret, pc>>
    /\ UNCHANGED <<bdir, manifest, registry, cfgVars, callVars, envVars, flagVars, execVars, lastCmd,
                   prevCmd, runs, undone>>

\* Restore: "return m.Clean(ctx, dir)"
RestoreClean ==
    /\ pc = "Restore.loop" /\ todo = {}
    /\ \E fail \in CleanFaults :
         LET r == Clean(files, content, registry, fail)
         IN  /\ files' = r.files /\ content' = r.content /\ bdir' = r.bdir
             /\ manifest' = r.manifest /\ registry' = r.registry
             /\ Charge(fail # "none", fail)
             /\ ret' = IF r.err THEN "err" ELSE "ok"
    /\ undone' = {<<q[1], content[files[B(q[1])]]>> : q \in Deref(manifest)}
    /\ pc' = "idle"
    /\ UNCHANGED <<cfgVars, callVars, envVars, flagVars, execVars, todo, lastCmd, prevCmd, runs>>

\* ------------------------------------------------------- clean commands
\* "autotitle clean <path>": Manager.Clean(dir) and its result
runClean ==
    /\ pc = "idle" /\ runs < budget
    /\ runs' = runs + 1
    /\ prevCmd' = lastCmd /\ lastCmd' = "Clean"
    /\ \E fail \in CleanFaults :
         LET r == Clean(files, content, registry, fail)
         IN  /\ files' = r.files /\ content' = r.content /\ bdir' = r.bdir
             /\ manifest' = r.manifest /\ registry' = r.registry
             /\ faults' = IF fail # "none" THEN faults + 1 ELSE faults
             /\ ioErr' = IF fail # "none" THEN <<fail>> ELSE << >>
             /\ ret' = IF r.err THEN "err" ELSE "ok"
    /\ UNCHANGED <<cfgVars, callVars, envVars, flagVars, execVars, pc, todo, undone>>

\* the faults of one CleanAll: the registry cannot be read, RemoveAll fails
\* for the backup directories of some source directories, the registry
\* cannot be written
CleanAllFaults ==
    {[ListAll |-> FALSE, RemoveAll |-> {}, saveRegistry |-> FALSE]}
    \cup (IF faults < MaxFaults
          THEN {[ListAll |-> TRUE, RemoveAll |-> {}, saveRegistry |-> FALSE],
                [ListAll |-> FALSE, RemoveAll |-> {}, saveRegistry |-> TRUE]}
               \cup {[ListAll |-> FALSE, RemoveAll |-> {d}, saveRegistry |-> FALSE] :
                        d \in {ThisDir, OtherDir}}
          ELSE {})

\* "autotitle clean -a": Manager.CleanAll
CleanAll ==
    /\ pc = "idle" /\ runs < budget
    /\ runs' = runs + 1
    /\ prevCmd' = lastCmd /\ lastCmd' = "CleanAll"
    /\ \E fail \in CleanAllFaults :
         LET records == registry
             listed(d) == \E k \in DOMAIN records : records[k].SourceDir = d
             gone(d) == listed(d) /\ d \notin fail.RemoveAll
         IN  /\ faults' = IF fail.ListAll \/ fail.saveRegistry \/ fail.RemoveAll # {}
                          THEN faults + 1 ELSE faults
             /\ ioErr' = (IF fail.ListAll THEN <<"ListAll">> ELSE << >>)
                          \o (IF fail.RemoveAll # {} THEN <<"RemoveAll">> ELSE << >>)
                          \o (IF fail.saveRegistry THEN <<"saveRegistry">> ELSE << >>)
             /\ IF fail.ListAll
                THEN /\ ret' = "err"
                     /\ UNCHANGED <<fsVars, otherBdir>>
                ELSE /\ files' = IF gone(ThisDir) THEN RemoveAllBackup(files) ELSE files
                     /\ content' = IF gone(ThisDir)
                                    THEN Norm(RemoveAllBackup(files), content)
                                    ELSE content
                     /\ bdir' = IF gone(ThisDir) THEN FALSE ELSE bdir
                     /\ manifest' = IF gone(ThisDir) THEN Nil ELSE manifest
                     /\ otherBdir' = IF gone(OtherDir) THEN FALSE ELSE otherBdir
                     /\ registry' = IF fail.saveRegistry THEN registry ELSE << >>
                     /\ ret' = IF fail.saveRegistry THEN "err" ELSE "ok"
    /\ UNCHANGED <<cfgVars, callVars, otherPc, otherRead, flagVars, execVars, pc, todo, undone>>

Next ==
    \/ ExecuteStart
    \/ ScanEntry
    \/ PerformBackup
    \/ BackupClean
    \/ BackupMkdirAll
    \/ BackupCopy
    \/ BackupWriteMappings
    \/ BackupAddRegistry
    \/ RenameStep
    \/ ExecuteReturn
    \/ RestoreStart
    \/ RestoreStep
    \/ RestoreClean

Spec == Init /\ [][Next]_vars

\* the backup manager's commands on small directories: Execute, Restore,
\* clean <path> and clean -a, three in a row
ManagerDirs == {S \in SUBSET (PlainNames \cup TaggedNames) :
                  Cardinality(S) >= 1 /\ Cardinality(S) <= 2}

InitManager == InitWith(ManagerDirs, {<<TargetTitled, Nil>>, <<TargetShift, Nil>>},
                        {Media}, MaxCmds)

NextManager ==
    \/ Next
    \/ runClean
    \/ CleanAll

SpecManager == InitManager /\ [][NextManager]_vars

\* targets with a template that does not compile and with explicit padding,
\* and a Media with a long episode list, on small directories
TargetConfigs == {<<TargetPartly, Nil>>, <<TargetInvalid, Nil>>,
                  <<TargetPadded, Nil>>, <<TargetTitled, Nil>>,
                  <<TargetFields, Nil>>, <<TargetMisaligned, Nil>>}

InitTargets == InitWith(ManagerDirs, TargetConfigs, {Media, MediaLong}, MaxRuns)

SpecTargets == InitTargets /\ [][Next]_vars

\* ------------------------------------------------------ second invocation
\* A second invocation of the tool with the same registry file: a Backup of
\* ThirdDir (addRegistry) or a Clean of OtherDir (removeFromRegistry).
\* "records, _ := m.ListAll(...)": it reads the registry file
OtherListAll ==
    /\ otherPc = "idle"
    /\ otherRead' = Ptr(registry)
    /\ otherPc' \in {"addRegistry", "removeFromRegistry"}
    /\ UNCHANGED <<fsVars, cfgVars, callVars, flagVars, execVars, otherBdir, pc, todo, ret,
                   lastCmd, prevCmd, runs, faults, ioErr, undone>>

\* variant: the registry is read again under a lock when it is written
OtherSaveRegistryLocked ==
    /\ otherPc \in {"addRegistry", "removeFromRegistry"}
    /\ registry' = IF otherPc = "addRegistry"
                   THEN addRegistry(registry, BackupRecord(ThirdDir))
                   ELSE removeFromRegistry(registry, OtherDir)
    /\ otherPc' = "done"
    /\ UNCHANGED <<files, content, bdir, manifest, cfgVars, callVars, flagVars, execVars,
                   otherBdir, otherRead, pc, todo, ret, lastCmd, prevCmd, runs,
                   faults, ioErr, undone>>

\* "return m.saveRegistry(records)": it writes the records it has read, with
\* its own change, over the registry file
OtherSaveRegistry ==
    /\ otherPc \in {"addRegistry", "removeFromRegistry"}
    /\ registry' = IF otherPc = "addRegistry"
                   THEN addRegistry(Deref(otherRead), BackupRecord(ThirdDir))
                   ELSE removeFromRegistry(Deref(otherRead), OtherDir)
    /\ otherPc' = "done"
    /\ UNCHANGED <<files, content, bdir, manifest, cfgVars, callVars, flagVars, execVars,
                   otherBdir, otherRead, pc, todo, ret, lastCmd, prevCmd, runs,
                   faults, ioErr, undone>>

InitRace == InitWith(ManagerDirs, {<<TargetTitled, Nil>>}, {Media}, MaxRuns)

NextRace ==
    \/ Next
    \/ OtherListAll
    \/ OtherSaveRegistry

SpecRace == InitRace /\ [][NextRace]_vars

TypeOK ==
    /\ pc \in {"idle", "scan", "Backup.Clean", "Backup.MkdirAll", "Backup.copy",
               "Backup.addRegistry", "performRenames", "Restore.loop"}
    /\ ret \in {"none", "ok", "err"}
    /\ lastCmd \in {"none", "Execute", "Restore", "Clean", "CleanAll"}
    /\ \A i \in DOMAIN operations :
         operations[i].Status \in {"pending", "success", "skipped", "failed"}
    /\ \A p \in Paths : files[p] \in Inodes \cup {Absent}


\* -------------------------------------------------------- package matcher
\* A string is the sequence of its characters.

MaxFields == 4    \* tokens of an output token list

Digit == {"0", "1", "2", "3", "4", "5", "6", "7", "8", "9"}

SeqsUpTo(S, n) == UNION {[1..k -> S] : k \in 0..n}

RECURSIVE Flatten(_)
Flatten(ss) == IF ss = << >> THEN << >> ELSE Head(ss) \o Flatten(Tail(ss))

RECURSIVE Repeat(_, _)
Repeat(c, n) == IF n <= 0 THEN << >> ELSE <<c>> \o Repeat(c, n - 1)

FieldGlue   == <<"+">>
FieldSeries == <<"S", "E", "R", "I", "E", "S">>
FieldEpNum  == <<"E", "P", "_", "N", "U", "M">>
FieldEpName == <<"E", "P", "_", "N", "A", "M", "E">>
FieldFiller == <<"F", "I", "L", "L", "E", "R">>
FieldRes    == <<"R", "E", "S">>

\* padNumber on the digits of the number
padZeros(s, width) ==
    IF s = << >> THEN << >>
    ELSE IF Len(s) >= width THEN s
    ELSE Repeat("0", width - Len(s)) \o s

\* SERIES_EN and SERIES_JP resolve as SERIES does, from their own variable
resolveField(field, v, padding) ==
    CASE field = FieldSeries -> v.Series
      [] field = FieldEpNum  -> padZeros(v.EpNum, padding)
      [] field = FieldEpName -> v.EpName
      [] field = FieldFiller -> v.Filler
      [] field = FieldRes    -> v.Res
      [] OTHER ->
           IF Len(field) >= 2 /\ field[1] = "\"" /\ field[Len(field)] = "\""
           THEN SubSeq(field, 2, Len(field) - 1)
           ELSE field

\* one pass of the loop over fields, an empty value also dropping the glue
writeFieldForgetsGlue(st, field, separator, v, padding) ==
    IF field = FieldGlue THEN [st EXCEPT !.suppressNextSep = TRUE]
    ELSE LET value == resolveField(field, v, padding)
         IN  IF value = << >> THEN [st EXCEPT !.suppressNextSep = FALSE]
             ELSE [builder |-> st.builder
                        \o (IF ~st.first /\ ~st.suppressNextSep
                            THEN <<separator>> ELSE << >>)
                        \o <<value>>,
                   first |-> FALSE,
                   suppressNextSep |-> FALSE]

\* one pass of the loop over fields; builder holds the WriteString calls
writeField(st, field, separator, v, padding) ==
    IF field = FieldGlue THEN [st EXCEPT !.suppressNextSep = TRUE]
    ELSE LET value == resolveField(field, v, padding)
         IN  IF value = << >> THEN st
             ELSE [builder |-> st.builder
                        \o (IF ~st.first /\ ~st.suppressNextSep
                            THEN <<separator>> ELSE << >>)
                        \o <<value>>,
                   first |-> FALSE,
                   suppressNextSep |-> FALSE]

RECURSIVE GenerateLoop(_, _, _, _, _, _)
GenerateLoop(fields, i, st, separator, v, padding) ==
    IF i > Len(fields) THEN st
    ELSE GenerateLoop(fields, i + 1, writeField(st, fields[i], separator, v, padding),
                      separator, v, padding)

\* GenerateFilenameFromFields on strings: the WriteString calls, in order
GenerateWrites(fields, separator, v, padding0) ==
    LET padding == IF padding0 <= 0 THEN 3 ELSE padding0
        st == GenerateLoop(fields, 1,
                           [builder |-> << >>, first |-> TRUE,
                            suppressNextSep |-> FALSE],
                           separator, v, padding)
    IN  st.builder \o << <<".">>, v.Ext >>

\* builder.String()
GenerateFilename(fields, separator, v, padding) ==
    Flatten(GenerateWrites(fields, separator, v, padding))

TemplateVars(series, epNum, epName, filler, res, ext) ==
    [Series |-> series, EpNum |-> epNum, EpName |-> epName, Filler |-> filler,
     Res |-> res, Ext |-> ext]

\* calls of the generator: token lists of a literal, an empty quoted literal,
\* the glue and three fields, of which two may be empty
FieldChoices == {FieldSeries, FieldEpNum, FieldFiller, FieldGlue, <<"D", "C">>,
                 <<"\"", "\"">>}
GenerateCalls ==
    {[fn |-> "GenerateFilenameFromFields", fields |-> fs, separator |-> sep,
      vars |-> TemplateVars(<<"S">>, ep, << >>, fl, << >>, <<"m", "k", "v">>),
      padding |-> pd] :
        fs \in SeqsUpTo(FieldChoices, MaxFields),
        sep \in {<<" ", "-", " ">>, <<"_">>},
        ep \in {<< >>, <<"1">>},
        fl \in {<< >>, <<"[", "F", "]">>},
        pd \in {0, 2}}

GenerateCall ==
    /\ args # Nil /\ result = Nil
    /\ args.fn = "GenerateFilenameFromFields"
    /\ result' = Ptr(GenerateWrites(args.fields, args.separator, args.vars,
                                    args.padding))
    /\ UNCHANGED <<fsVars, cfgVars, envVars, flagVars, execVars, args, loop, pc,
                   todo, ret, lastCmd, prevCmd, runs, faults, ioErr, undone>>

InitGenerate ==
    InitState({{}}, {<<TargetTitled, Nil>>}, {Media}, 0, GenerateCalls)

SpecGenerate == InitGenerate /\ [][GenerateCall]_vars

\* ---------------------------------------------------- Compile and Match
\* A template is the sequence of its characters, a placeholder being one
\* element; a regular expression is the sequence of its elements.

MaxLen == 5       \* characters of a drawn file name

PlaceholderSeries == "{{SERIES}}"
PlaceholderEpNum  == "{{EP_NUM}}"
PlaceholderEpName == "{{EP_NAME}}"
PlaceholderFiller == "{{FILLER}}"
PlaceholderRes    == "{{RES}}"
PlaceholderExt    == "{{EXT}}"
PlaceholderAny    == "{{ANY}}"

\* the name between the braces of a placeholder
BaseName ==
    (PlaceholderSeries :> "SERIES") @@ (PlaceholderEpNum :> "EP_NUM") @@
    (PlaceholderEpName :> "EP_NAME") @@ (PlaceholderFiller :> "FILLER") @@
    (PlaceholderRes :> "RES") @@ (PlaceholderExt :> "EXT") @@
    (PlaceholderAny :> "ANY")

ResRegex == "\\d{3,4}p|\\d{3,4}x\\d{3,4}"

\* free text that takes as much as it can
placeholderRegexMapGreedy ==
    [SERIES |-> ".+", EP_NUM |-> "\\d+", EP_NAME |-> ".+", FILLER |-> ".*",
     RES |-> ResRegex, ANY |-> ".*"]

placeholderRegexMap ==
    [SERIES |-> ".+?", EP_NUM |-> "\\d+", EP_NAME |-> ".+?", FILLER |-> ".*?",
     RES |-> ResRegex, ANY |-> ".*?"]

formatGroupName ==
    [SERIES |-> "Series", EP_NUM |-> "EpNum", EP_NAME |-> "EpName",
     FILLER |-> "Filler", RES |-> "Res", ANY |-> "Any"]

Literal(c)      == [kind |-> "lit", ch |-> c, name |-> "", re |-> ""]
Group(name, re) == [kind |-> "group", ch |-> "", name |-> name, re |-> re]
Bol             == [kind |-> "^", ch |-> "", name |-> "", re |-> ""]
Eol             == [kind |-> "$", ch |-> "", name |-> "", re |-> ""]

\* strings.ReplaceAll(template, "."+PlaceholderExt, "")
RECURSIVE StripDotExt(_)
StripDotExt(t) ==
    IF t = << >> THEN << >>
    ELSE IF Len(t) >= 2 /\ t[1] = "." /\ t[2] = PlaceholderExt
         THEN StripDotExt(SubSeq(t, 3, Len(t)))
         ELSE <<Head(t)>> \o StripDotExt(Tail(t))

\* the elements Compile puts between the anchors
CompileBody(template) ==
    LET templateBase == SelectSeq(StripDotExt(template),
                                  LAMBDA x : x # PlaceholderExt)
        known(tok) == tok \in DOMAIN BaseName
                      /\ BaseName[tok] \in DOMAIN placeholderRegexMap
        count(i)  == Cardinality({j \in 1..i : templateBase[j] = templateBase[i]})
        totals(i) == Cardinality({j \in DOMAIN templateBase :
                                    templateBase[j] = templateBase[i]})
        groupName(i) ==
            IF totals(i) > 1
            THEN formatGroupName[BaseName[templateBase[i]]] \o "_" \o ToString(count(i))
            ELSE formatGroupName[BaseName[templateBase[i]]]
    IN  [i \in DOMAIN templateBase |->
            IF known(templateBase[i])
            THEN Group(groupName(i), placeholderRegexMap[BaseName[templateBase[i]]])
            ELSE Literal(templateBase[i])]

\* a regular expression that may match a part of the text
regexUnanchored(template) == CompileBody(template)

\* a regular expression that may end before the text does
regexNoEnd(template) == <<Bol>> \o CompileBody(template)

\* resultRegex = "^" + resultRegex + "$"
regexAnchored(template) == <<Bol>> \o CompileBody(template) \o <<Eol>>

SubexpNames(re) ==
    LET groups == SelectSeq(re, LAMBDA e : e.kind = "group")
    IN  [i \in DOMAIN groups |-> groups[i].name]

SubexpIndex(re, name) ==
    LET names == SubexpNames(re)
        hits == {i \in DOMAIN names : names[i] = name}
    IN  IF hits = {} THEN -1 ELSE CHOOSE i \in hits : \A j \in hits : i <= j

getFirstSubexpIndex(re, baseName) ==
    IF SubexpIndex(re, baseName) >= 0 THEN SubexpIndex(re, baseName)
    ELSE SubexpIndex(re, baseName \o "_1")

Compile(template) ==
    LET re == regexAnchored(template)
    IN  [raw |-> template, regex |-> re,
         idxEpNum |-> getFirstSubexpIndex(re, "EpNum"),
         idxRes |-> getFirstSubexpIndex(re, "Res")]

\* the characters from k on that "." matches, that are digits
RECURSIVE Run(_, _, _)
Run(s, k, digit) ==
    IF k <= Len(s) /\ (IF digit THEN s[k] \in Digit ELSE s[k] # "\n")
    THEN 1 + Run(s, k + 1, digit) ELSE 0

Upward(a, b)   == [i \in 1..(IF b >= a THEN b - a + 1 ELSE 0) |-> a + i - 1]
Downward(b, a) == [i \in 1..(IF b >= a THEN b - a + 1 ELSE 0) |-> b - i + 1]

\* the forms of RES in the order in which the expression tries them
ResShapes ==
    << <<"d", "d", "d", "d", "p">>, <<"d", "d", "d", "p">>,
       <<"d", "d", "d", "d", "x", "d", "d", "d", "d">>,
       <<"d", "d", "d", "d", "x", "d", "d", "d">>,
       <<"d", "d", "d", "x", "d", "d", "d", "d">>,
       <<"d", "d", "d", "x", "d", "d", "d">> >>

ShapeFits(shape, s, k) ==
    /\ k + Len(shape) - 1 <= Len(s)
    /\ \A j \in DOMAIN shape :
         IF shape[j] = "d" THEN s[k + j - 1] \in Digit ELSE s[k + j - 1] = shape[j]

\* the lengths a group can take at position k, in the order of preference
\* of a leftmost-first match
Lens(re, s, k) ==
    LET dots   == Run(s, k, FALSE)
        digits == Run(s, k, TRUE)
        shapes == SelectSeq(ResShapes, LAMBDA sh : ShapeFits(sh, s, k))
    IN  CASE re = ".+?"   -> Upward(1, dots)
          [] re = ".*?"   -> Upward(0, dots)
          [] re = ".+"    -> Downward(dots, 1)
          [] re = ".*"    -> Downward(dots, 0)
          [] re = "\\d+"  -> Downward(digits, 1)
          [] re = ResRegex -> [i \in DOMAIN shapes |-> Len(shapes[i])]

\* elements i.. of re against s from position k: Nil, or the captures of the
\* groups among them
RECURSIVE MatchHere(_, _, _, _), TryLens(_, _, _, _, _)
MatchHere(re, s, i, k) ==
    IF i > Len(re) THEN Ptr(<< >>)
    ELSE CASE re[i].kind = "^" -> IF k = 1 THEN MatchHere(re, s, i + 1, k) ELSE Nil
           [] re[i].kind = "$" ->
                IF k = Len(s) + 1 THEN MatchHere(re, s, i + 1, k) ELSE Nil
           [] re[i].kind = "lit" ->
                IF k <= Len(s) /\ s[k] = re[i].ch
                THEN MatchHere(re, s, i + 1, k + 1) ELSE Nil
           [] re[i].kind = "group" -> TryLens(re, s, i, k, Lens(re[i].re, s, k))

TryLens(re, s, i, k, lens) ==
    IF lens = << >> THEN Nil
    ELSE LET rest == MatchHere(re, s, i + 1, k + Head(lens))
         IN  IF rest # Nil
             THEN Ptr(<<SubSeq(s, k, k + Head(lens) - 1)>> \o Deref(rest))
             ELSE TryLens(re, s, i, k, Tail(lens))

\* regexp.FindStringSubmatch: the leftmost match; match[i] of the model is
\* the capture of group i
RECURSIVE FindFrom(_, _, _)
FindFrom(re, s, k) ==
    IF k > Len(s) + 1 THEN Nil
    ELSE IF MatchHere(re, s, 1, k) # Nil THEN MatchHere(re, s, 1, k)
    ELSE FindFrom(re, s, k + 1)

FindStringSubmatch(re, s) == FindFrom(re, s, 1)

\* filepath.Ext: from the last dot of the last path element
filepathExt(path) ==
    LET dots == {i \in DOMAIN path :
                   /\ path[i] = "."
                   /\ \A j \in DOMAIN path : j > i => path[j] \notin {".", "/"}}
    IN  IF dots = {} THEN << >>
        ELSE SubSeq(path, CHOOSE i \in dots : TRUE, Len(path))

TrimSuffix(s, suffix) == SubSeq(s, 1, Len(s) - Len(suffix))

\* Pattern.Match: Nil, or the map from group name to capture, with Ext
PatternMatch(p, filename) ==
    LET ext == filepathExt(filename)
        match == FindStringSubmatch(p.regex, TrimSuffix(filename, ext))
        names == SubexpNames(p.regex)
    IN  IF ext = << >> \/ match = Nil THEN Nil
        ELSE Ptr([n \in {names[i] : i \in DOMAIN names} \cup {"Ext"} |->
                    IF n = "Ext" THEN Tail(ext)
                    ELSE Deref(match)[CHOOSE i \in DOMAIN names :
                                        /\ names[i] = n
                                        /\ \A j \in DOMAIN names :
                                             names[j] = n => j <= i]])

DigitValue == [c \in Digit |->
                 CHOOSE v \in 0..9 : <<"0", "1", "2", "3", "4", "5", "6", "7", "8", "9">>[v + 1] = c]

\* strconv.Atoi on digits; the names of the model are short of the nineteen
\* digits from which it fails
RECURSIVE Atoi(_)
Atoi(s) == IF s = << >> THEN 0 ELSE 10 * Atoi(SubSeq(s, 1, Len(s) - 1)) + DigitValue[s[Len(s)]]

\* Pattern.MatchTyped: Nil and false, or the MatchResult
PatternMatchTyped(p, filename) ==
    LET ext == filepathExt(filename)
        match == FindStringSubmatch(p.regex, TrimSuffix(filename, ext))
    IN  IF ext = << >> \/ match = Nil THEN Nil
        ELSE Ptr([EpisodeNum |-> IF p.idxEpNum >= 1 /\ p.idxEpNum <= Len(Deref(match))
                                 THEN Atoi(Deref(match)[p.idxEpNum]) ELSE 0,
                  Resolution |-> IF p.idxRes >= 1 /\ p.idxRes <= Len(Deref(match))
                                 THEN Deref(match)[p.idxRes] ELSE << >>,
                  Extension  |-> Tail(ext)])

\* the templates and file names of the tests, a short template, and every
\* file name of up to MaxLen characters
TextTagged ==
    <<"[", PlaceholderAny, "]", " ", PlaceholderSeries, " ", "-", " ",
      PlaceholderEpNum, ".", PlaceholderExt>>
TextRes ==
    <<PlaceholderSeries, " ", "-", " ", PlaceholderEpNum, " ", "[",
      PlaceholderRes, "]", ".", PlaceholderExt>>
TextShort == <<"a", PlaceholderEpNum, ".", PlaceholderExt>>
TextPair  == <<PlaceholderSeries, " ", PlaceholderEpNum, ".", PlaceholderExt>>
Templates == {TextTagged, TextRes, TextShort, TextPair}

NameSubs ==
    <<"[", "S", "u", "b", "s", "]", " ", "[", "v", "2", "]", " ", "M", "y", " ",
      "s", "h", "o", "w", " ", "-", " ", "0", "1", ".", "m", "k", "v">>
NameRes ==
    <<"T", "e", "s", "t", " ", "A", "n", "i", "m", "e", " ", "-", " ", "0", "1",
      " ", "[", "1", "0", "8", "0", "p", "]", ".", "m", "k", "v">>
Alphabet == {"a", "1", " ", "."}
FileNames == SeqsUpTo(Alphabet, MaxLen) \cup {NameSubs, NameRes}

MatchCalls ==
    {[fn |-> f, template |-> t, filename |-> n] :
        f \in {"Match", "MatchTyped"}, t \in Templates, n \in FileNames}

MatchCall ==
    /\ args # Nil /\ result = Nil
    /\ args.fn = "Match"
    /\ result' = Ptr(PatternMatch(Compile(args.template), args.filename))
    /\ UNCHANGED <<fsVars, cfgVars, envVars, flagVars, execVars, args, loop, pc,
                   todo, ret, lastCmd, prevCmd, runs, faults, ioErr, undone>>

MatchTypedCall ==
    /\ args # Nil /\ result = Nil
    /\ args.fn = "MatchTyped"
    /\ result' = Ptr(PatternMatchTyped(Compile(args.template), args.filename))
    /\ UNCHANGED <<fsVars, cfgVars, envVars, flagVars, execVars, args, loop, pc,
                   todo, ret, lastCmd, prevCmd, runs, faults, ioErr, undone>>

InitMatch == InitState({{}}, {<<TargetTitled, Nil>>}, {Media}, 0, MatchCalls)

NextMatch ==
    \/ MatchCall
    \/ MatchTypedCall

SpecMatch == InitMatch /\ [][NextMatch]_vars

\* ------------------------------------------------- generate, then match

MaxText == 3      \* characters of a drawn free-text value

FieldOf ==
    (PlaceholderSeries :> FieldSeries) @@ (PlaceholderEpNum :> FieldEpNum) @@
    (PlaceholderEpName :> FieldEpName) @@ (PlaceholderFiller :> FieldFiller) @@
    (PlaceholderRes :> FieldRes)

\* the output token list that writes what a template reads: a field for each
\* placeholder, a literal for each character, joined by the empty separator
FieldsOf(template) ==
    LET body == SelectSeq(StripDotExt(template), LAMBDA x : x # PlaceholderExt)
    IN  [i \in DOMAIN body |->
            IF body[i] \in DOMAIN FieldOf THEN FieldOf[body[i]] ELSE <<body[i]>>]

TextPlain ==
    <<PlaceholderSeries, " ", "-", " ", PlaceholderEpNum, ".", PlaceholderExt>>
TextTitled ==
    <<PlaceholderSeries, " ", "-", " ", PlaceholderEpNum, " ", "-", " ",
      PlaceholderEpName, ".", PlaceholderExt>>
TextWords == <<PlaceholderSeries, " ", PlaceholderEpName, ".", PlaceholderExt>>

\* words of a title, and a title holding " - 1"
FreeText ==
    {t \in SeqsUpTo({"a", " "}, MaxText) :
        t # << >> /\ t[1] # " " /\ t[Len(t)] # " "}
    \cup {<<"a", " ", "-", " ", "1">>}

RoundTripCalls ==
    {[fn |-> "RoundTrip", template |-> t, padding |-> pd,
      vars |-> TemplateVars(sr, ep, en, << >>, << >>, <<"m", "k", "v">>)] :
        t \in {TextPlain, TextTitled, TextWords}, pd \in {0, 2},
        sr \in FreeText, ep \in {<<"2">>, <<"1", "2">>}, en \in FreeText}

\* the Filename Generator on the variables of the call
GenerateName ==
    /\ args # Nil /\ loop = Nil /\ result = Nil
    /\ args.fn = "RoundTrip"
    /\ loop' = Ptr(GenerateFilename(FieldsOf(args.template), << >>, args.vars,
                                    args.padding))
    /\ UNCHANGED <<fsVars, cfgVars, envVars, flagVars, execVars, args, result, pc,
                   todo, ret, lastCmd, prevCmd, runs, faults, ioErr, undone>>

\* the compiled template on the generated name
MatchName ==
    /\ args # Nil /\ loop # Nil /\ result = Nil
    /\ args.fn = "RoundTrip"
    /\ result' = Ptr(PatternMatch(Compile(args.template), Deref(loop)))
    /\ UNCHANGED <<fsVars, cfgVars, envVars, flagVars, execVars, args, loop, pc,
                   todo, ret, lastCmd, prevCmd, runs, faults, ioErr, undone>>

InitRoundTrip == InitState({{}}, {<<TargetTitled, Nil>>}, {Media}, 0, RoundTripCalls)

NextRoundTrip ==
    \/ GenerateName
    \/ MatchName

SpecRoundTrip == InitRoundTrip /\ [][NextRoundTrip]_vars

\* ------------------------------------------------------------------ claims
NonSkipped(ops) == {i \in DOMAIN ops : ops[i].Status # "skipped"}
Failed(call)    == \E k \in DOMAIN ioErr : ioErr[k] = call
HasRecord(dir)  == \E k \in DOMAIN registry : registry[k].SourceDir = dir

\* C1: in an Execute with backups enabled and dry-run off no os.Rename is
\* called before Backup has returned ok for the mappings of the run (the
\* copies and mappings.json are in place); if Backup returns an error,
\* Execute returns an error and the directory is as it was.
C1_BackupBeforeRename ==
    (lastCmd = "Execute" /\ shouldBackup) =>
        /\ renameCalls # << >> =>
             /\ backupRet = "ok" /\ backupArg = renameMappings
             /\ manifest = Ptr(renameMappings)
             /\ \A q \in renameMappings : files[B(q[1])] # Absent
        /\ backupRet \notin {"none", "ok"} =>
             /\ pc = "idle" /\ ret = "err"
             /\ renameCalls = << >>
             /\ View(files, content) = pre.view

C1_Witness ==
    /\ lastCmd = "Execute" /\ shouldBackup /\ backupRet = "ok"
    /\ \E k \in DOMAIN renameCalls : ~renameCalls[k].err

\* the last Execute ran with a backup and every rename it tried succeeded
ExecuteRenamedAll ==
    /\ shouldBackup /\ backupRet = "ok"
    /\ \A i \in DOMAIN operations : operations[i].Status \in {"success", "skipped"}
    /\ \E i \in DOMAIN operations : operations[i].Status = "success"

\* C2: a Restore that follows an Execute (backups enabled, dry-run off)
\* whose renames all succeeded returns ok and leaves the directory with the
\* names and contents it had before that Execute, without a backup directory
\* and without a registry record of the directory.
C2_UndoRestoresDirectory ==
    (lastCmd = "Restore" /\ prevCmd = "Execute" /\ pc = "idle" /\ ioErr = << >>
        /\ ExecuteRenamedAll) =>
        /\ ret = "ok"
        /\ View(files, content) = pre.view
        /\ ~bdir /\ manifest = Nil
        /\ \A n \in Names : files[B(n)] = Absent
        /\ ~HasRecord(ThisDir)

\* C3: in one Execute no two operations that are not Skipped have the same
\* target path, and no rename replaces the file an earlier rename of the same
\* call has produced.
C3_UniqueTargets ==
    lastCmd = "Execute" =>
        /\ \A i, j \in NonSkipped(operations) :
             i # j => operations[i].TargetPath # operations[j].TargetPath
        /\ \A k \in DOMAIN renameCalls :
             renameCalls[k].replaced =>
                ~\E j \in 1..(k - 1) :
                    ~renameCalls[j].err /\ renameCalls[j].dst = renameCalls[k].dst

\* the video files the directory held when Execute started
VideoBefore == {n \in Names : pre.view[n] # -1 /\ isVideoFile(n.ext)}

\* the name Execute generates for a file, Nil if it builds no operation
Generated(n) ==
    IF Resolve(target, Offset, n).kind = "op"
    THEN Ptr(Resolve(target, Offset, n).op.TargetPath)
    ELSE Nil

\* a and b generate one new name, and a comes first in the directory
Collide(a, b) ==
    /\ NameRank(a) < NameRank(b)
    /\ Generated(a) # Nil /\ Generated(a) = Generated(b)
    /\ Deref(Generated(a)) \notin {a, b}
    /\ ~\E c \in VideoBefore : NameRank(c) < NameRank(a) /\ Generated(c) = Generated(a)

\* C4: when two video files generate the same target name, a finished real
\* run has renamed only the first of them to that name, the later file is
\* still there under its name, exactly one error event "Collision" names it,
\* and every other file of the run has its operation.
C4_CollisionSkipped ==
    (lastCmd = "Execute" /\ pc = "idle" /\ ret = "ok" /\ ~DryRun /\ ioErr = << >>) =>
        \A a, b \in VideoBefore :
            Collide(a, b) =>
                /\ {renameCalls[k].src : k \in {h \in DOMAIN renameCalls :
                        renameCalls[h].dst = Deref(Generated(a))}} = {a}
                /\ files[D(b)] # Absent /\ content[files[D(b)]] = pre.view[b]
                /\ Cardinality({k \in DOMAIN events :
                        /\ events[k].Type = "error"
                        /\ events[k].Message = "Collision"
                        /\ events[k].File = b}) = 1
                /\ \A c \in VideoBefore :
                        (Generated(c) # Nil /\ Generated(c) # Generated(a)) =>
                            \E i \in DOMAIN operations : operations[i].SourcePath = c

\* C5: after Restore has returned ok, every old name of the manifest is a
\* file of the directory with the content of its backup copy.
C5_RestoreBringsBackOld ==
    (lastCmd = "Restore" /\ pc = "idle" /\ ret = "ok") =>
        \A u \in undone :
            files[D(u[1])] # Absent /\ content[files[D(u[1])]] = u[2]

\* the indices of the operations performRenames has to attempt, in list order
PendingUpTo(n) ==
    SelectSeq([i \in 1..n |-> i], LAMBDA i : planned[i].Status = "pending")

\* C6: performRenames calls os.Rename for every Pending operation, in list
\* order; a failed rename makes its operation Failed with the error text, a
\* successful one Success, and the operations after a failure are attempted
\* all the same.
C6_AllPendingAttempted ==
    (lastCmd = "Execute" /\ ~DryRun
        /\ (pc = "performRenames" \/ (pc = "idle" /\ ret = "ok"))) =>
        LET done == IF pc = "performRenames" THEN idx - 1 ELSE Len(operations)
            att  == PendingUpTo(done)
        IN  /\ Len(operations) = Len(planned)
            /\ Len(renameCalls) = Len(att)
            /\ \A k \in DOMAIN renameCalls :
                 /\ renameCalls[k].src = planned[att[k]].SourcePath
                 /\ renameCalls[k].dst = planned[att[k]].TargetPath
                 /\ operations[att[k]].Status =
                        IF renameCalls[k].err THEN "failed" ELSE "success"
                 /\ renameCalls[k].err <=> operations[att[k]].Error # ""
            /\ \A i \in DOMAIN operations :
                 (i > done \/ planned[i].Status = "skipped") =>
                    operations[i] = planned[i]

C6_Witness ==
    /\ lastCmd = "Execute" /\ pc = "idle" /\ ret = "ok"
    /\ \E i, j \in DOMAIN operations :
         /\ i < j
         /\ operations[i].Status = "failed" /\ operations[i].Error # ""
         /\ operations[j].Status = "success"

\* C7 as stated: when the copy of one file into the backup fails, Execute
\* still returns ok with the list of operations, and the other files are
\* backed up and renamed.
C7_CopyFailureKeepsBatch ==
    (lastCmd = "Execute" /\ pc = "idle" /\ Failed("copyFile")) =>
        /\ ret = "ok"
        /\ Len(operations) = Len(planned)
        /\ Len(renameCalls) >= Cardinality(backupArg) - 1

\* C7, amended: when the copy of one file into the backup fails, Backup
\* returns the error "failed to backup file", Execute returns an error and
\* no list of operations, no file is renamed and the directory is as it was.
C7_CopyFailureAborts ==
    (lastCmd = "Execute" /\ Failed("copyFile")) =>
        /\ pc = "idle" /\ ret = "err"
        /\ backupRet = "failed to backup file"
        /\ operations = << >>
        /\ renameCalls = << >>
        /\ View(files, content) = pre.view

C7_Witness ==
    /\ lastCmd = "Execute" /\ Failed("copyFile") /\ ret = "err"
    /\ Cardinality(backupArg) >= 2
    /\ \E q \in backupArg : files[B(q[1])] # Absent
    /\ \E q \in backupArg : files[B(q[1])] = Absent

\* C8: within one Execute the status of an operation changes only from
\* Pending, to Success, Failed or Skipped; a status other than Pending stays.
C8_StatusMonotone ==
    [][(runs' = runs /\ Len(operations') >= Len(operations)) =>
          \A i \in DOMAIN operations :
             operations'[i].Status # operations[i].Status =>
                /\ operations[i].Status = "pending"
                /\ operations'[i].Status \in {"success", "failed", "skipped"}]_vars

C8_Witness ==
    /\ lastCmd = "Execute" /\ pc = "performRenames" /\ idx > Len(operations)
    /\ \E i, j, k \in DOMAIN operations :
         /\ operations[i].Status = "skipped"
         /\ operations[j].Status = "success"
         /\ operations[k].Status = "failed"

\* C9: Backup is called at most once in an Execute, with exactly the
\* old -> new names of the operations that are not Skipped; an operation is
\* Skipped exactly when the generated name is the current name, and such a
\* file is in neither the mappings, the backup directory nor the renames.
C9_BackupGetsNonSkipped ==
    (lastCmd = "Execute" /\ pc # "scan") =>
        /\ backupCalls <= 1
        /\ backupCalls = 1 =>
             backupArg = {<<planned[i].SourcePath, planned[i].TargetPath>> :
                            i \in NonSkipped(planned)}
        /\ \A i \in DOMAIN planned :
             /\ planned[i].Status = "skipped" <=>
                    planned[i].SourcePath = planned[i].TargetPath
             /\ planned[i].Status = "skipped" =>
                  /\ \E k \in DOMAIN events :
                        /\ events[k].Message = "Skipped (unchanged)"
                        /\ events[k].File = planned[i].SourcePath
                  /\ ~\E q \in backupArg : q[1] = planned[i].SourcePath
                  /\ files[B(planned[i].SourcePath)] = Absent
                  /\ ~\E k \in DOMAIN renameCalls :
                        renameCalls[k].src = planned[i].SourcePath

C9_Witness ==
    /\ lastCmd = "Execute" /\ pc = "idle" /\ ret = "ok"
    /\ backupCalls = 1 /\ backupRet = "ok"
    /\ \E i, j \in DOMAIN operations :
         operations[i].Status = "skipped" /\ operations[j].Status = "success"

\* C10: an Execute with dry-run on calls neither os.Rename nor Backup and
\* leaves the directory, the backup directory and the registry as they were;
\* the operations (source, target, Skipped or not) and the warning and skip
\* events it returns are those of a real run on the same directory.
C10_DryRunPlansOnly ==
    /\ (lastCmd = "Execute" /\ DryRun) =>
          /\ Snapshot = pre
          /\ renameCalls = << >> /\ backupCalls = 0
    /\ (lastCmd = "Execute" /\ pc # "scan" /\ prevPlan # Nil
          /\ Deref(prevPlan).dry # DryRun) =>
          PlanOf(planned, events) = Deref(prevPlan).plan

C10_Witness ==
    /\ lastCmd = "Execute" /\ ~DryRun /\ pc = "idle" /\ ret = "ok"
    /\ prevPlan # Nil /\ Deref(prevPlan).dry
    /\ Deref(prevPlan).plan.skips # << >>
    /\ \E i, j \in DOMAIN operations :
         operations[i].Status = "skipped" /\ operations[j].Status = "success"

\* the step that starts the command cmd
Starts(cmd) == lastCmd' = cmd /\ runs' = runs + 1

\* the registry records of the other source directories
OtherRecords(reg) == SelectSeq(reg, LAMBDA r : r.SourceDir # ThisDir)

\* C11: Restore on a directory without mappings.json returns an error and
\* leaves the files, the backup directory and the registry as they are.
C11_RestoreNeedsBackup ==
    [][(Starts("Restore") /\ manifest = Nil) =>
          /\ ret' = "err" /\ pc' = "idle"
          /\ UNCHANGED <<files, content, bdir, manifest, registry>>]_vars

\* a second Restore right after a Restore that undid the renames of an Execute
C11_Witness ==
    /\ lastCmd = "Restore" /\ prevCmd = "Restore" /\ pc = "idle" /\ ret = "err"
    /\ backupRet = "ok" /\ renameCalls # << >> /\ faults = 0
    /\ ~bdir /\ manifest = Nil /\ ~HasRecord(ThisDir)

\* C12: Clean on a directory without a backup directory returns an error.
C12_CleanNeedsBackup ==
    [][(Starts("Clean") /\ ~bdir) => ret' = "err"]_vars

C14_CleanAllRemovesListed ==
    [][(Starts("CleanAll") /\ ret' = "ok") =>
          /\ registry' = << >>
          /\ HasRecord(ThisDir) =>
                (~bdir' /\ \A n \in Names : files'[B(n)] = Absent)
          /\ HasRecord(OtherDir) => ~otherBdir']_vars

\* C15: nothing serialises the read and the rewrite of the registry: when the
\* second invocation writes the registry, a record this invocation has added
\* since the second one read the file is not in the registry any more.
C15_RegistryLostUpdate ==
    [][(otherPc # "done" /\ otherPc' = "done" /\ HasRecord(ThisDir)
          /\ ~\E k \in DOMAIN Deref(otherRead) : Deref(otherRead)[k].SourceDir = ThisDir)
        => \A k \in DOMAIN registry' : registry'[k].SourceDir # ThisDir]_vars

\* Backup has returned ok and the backup is in place, but the registry has
\* no record of it
C15_Witness ==
    /\ otherPc = "done" /\ faults = 0
    /\ lastCmd = "Execute" /\ backupRet = "ok" /\ bdir /\ manifest # Nil
    /\ ~HasRecord(ThisDir)

\* the pattern group whose template matched the file
MatchedGroup(n) == target.Patterns[FirstMatch(target, n).group]

\* C16: the episode of every operation is the number matched in the file
\* name plus the per-call override when one is set (0 included), else plus
\* the offset of the matched pattern's output; without both the offset is 0.
C16_OffsetPriority ==
    /\ \A i \in DOMAIN operations :
         LET n == operations[i].SourcePath
         IN  operations[i].Episode =
                n.ep + (IF Offset # Nil THEN Deref(Offset)
                        ELSE MatchedGroup(n).Output.Offset)
    /\ MatchResultOffset(Nil, Nil) = 0

\* an override of 0 on a file whose pattern has the offset 1
C16_Witness ==
    /\ lastCmd = "Execute" /\ pc = "idle" /\ ret = "ok" /\ Offset = Ptr(0)
    /\ \E i \in DOMAIN operations :
         /\ MatchedGroup(operations[i].SourcePath).Output.Offset = 1
         /\ operations[i].Episode = operations[i].SourcePath.ep

\* the positions, in declaration order, of the templates that match n
DeclaredHits(n) ==
    {k \in DOMAIN FlatInputs(target, 1) :
        /\ Compiles(FlatInputs(target, 1)[k])
        /\ Matches(FlatInputs(target, 1)[k], n)}

FirstDeclaredHit(n) == CHOOSE k \in DeclaredHits(n) : \A h \in DeclaredHits(n) : k <= h

\* C17: every operation comes from the first template, in declaration
\* order, that matches its file, also when a later template matches too: its
\* pattern group and the offset added to the episode are those of that
\* template.
C17_FirstMatchWins ==
    \A i \in DOMAIN operations :
        LET n == operations[i].SourcePath
            g == GroupOfInput(target, 1, FirstDeclaredHit(n))
        IN  /\ DeclaredHits(n) # {}
            /\ FirstMatch(target, n).group = g
            /\ Offset = Nil =>
                  operations[i].Episode = n.ep + target.Patterns[g].Output.Offset

\* a file that two templates with different offsets match
C17_Witness ==
    /\ lastCmd = "Execute" /\ pc = "idle" /\ ret = "ok" /\ Offset = Nil
    /\ \E i \in DOMAIN operations :
         LET n == operations[i].SourcePath
         IN  \E k \in DeclaredHits(n) :
                /\ k > FirstDeclaredHit(n)
                /\ target.Patterns[GroupOfInput(target, 1, k)].Output.Offset
                     # target.Patterns[GroupOfInput(target, 1, FirstDeclaredHit(n))].Output.Offset

\* a template of the target does not compile / at least one compiles
SomeInvalid == \E k \in DOMAIN FlatInputs(target, 1) : ~Compiles(FlatInputs(target, 1)[k])
SomeValid   == \E k \in DOMAIN FlatInputs(target, 1) : Compiles(FlatInputs(target, 1)[k])

\* the events of kind type with the message msg
EventsOf(type, msg) ==
    {k \in DOMAIN events : events[k].Type = type /\ events[k].Message = msg}

\* C18: when a template does not compile, Execute emits one warning for it,
\* first of all events; if a template compiled it goes on to examine every
\* video file and fails only when the backup fails; if none compiled it
\* returns an error with no operation, no event about a file, no backup, no
\* rename and the directory as it was.
C18_InvalidPatterns ==
    lastCmd = "Execute" =>
        /\ SomeInvalid <=> EventsOf("warning", "Invalid pattern") = {1}
        /\ (SomeValid /\ pc = "idle") =>
              /\ ret = "err" => backupRet \notin {"none", "ok"}
              /\ ret = "ok" =>
                    \A n \in VideoBefore :
                        \/ \E i \in DOMAIN operations : operations[i].SourcePath = n
                        \/ \E k \in DOMAIN events :
                              events[k].Type = "warning" /\ events[k].File = n
        /\ ~SomeValid =>
              /\ pc = "idle" /\ ret = "err"
              /\ Len(events) = 1 /\ operations = << >> /\ planned = << >>
              /\ backupCalls = 0 /\ renameCalls = << >> /\ Snapshot = pre

\* a run that renames a file although a template of its target is invalid
C18_Witness ==
    /\ lastCmd = "Execute" /\ pc = "idle" /\ ret = "ok"
    /\ SomeInvalid /\ SomeValid
    /\ events[1].Message = "Invalid pattern"
    /\ \E i \in DOMAIN operations : operations[i].Status = "success"

\* a run that stops with "no valid patterns found"
C18_WitnessFatal ==
    /\ lastCmd = "Execute" /\ pc = "idle" /\ ret = "err" /\ ~SomeValid
    /\ VideoBefore # {}

\* the current Execute is a real run that follows a real Execute with the
\* same options which renamed files and had no failure
SecondRun ==
    /\ lastCmd = "Execute" /\ ~DryRun /\ prevRun # Nil
    /\ Deref(prevRun).cmd = "Execute"
    /\ Deref(prevRun).flags = <<DryRun, NoBackup, Enabled>>
    /\ Deref(prevRun).ok /\ Deref(prevRun).renamed

\* C19: an Execute on the directory a first successful Execute with the same
\* target, media and options has produced renames nothing, and all its
\* operations are Skipped.
C19_SecondRunSkipsAll ==
    SecondRun =>
        /\ renameCalls = << >>
        /\ \A i \in DOMAIN operations : operations[i].Status = "skipped"

\* the largest episode number of the Media's episode list
LargestEpisode ==
    CHOOSE x \in {media.Episodes[k].Number : k \in DOMAIN media.Episodes} :
        \A k \in DOMAIN media.Episodes : media.Episodes[k].Number <= x

\* max(2, number of decimal digits of the largest episode number)
AutoWidth == IF Digits(LargestEpisode) > 2 THEN Digits(LargestEpisode) ELSE 2

\* C20: the episode number of every generated name has the width of the
\* matched pattern's padding when that is not 0, and else the automatic
\* width of the Media (a number with more digits is written in full).
C20_PaddingWidth ==
    \A i \in DOMAIN operations :
        LET explicit == MatchedGroup(operations[i].SourcePath).Output.Padding
            width    == IF explicit # 0 THEN explicit ELSE AutoWidth
            digits   == Digits(operations[i].Episode)
        IN  operations[i].TargetPath.w = IF digits > width THEN digits ELSE width


\* ------------------------------------------------------------- generator

\* the tokens of the call that put a value into the name
Emitted(a) ==
    {i \in DOMAIN a.fields :
        /\ a.fields[i] # FieldGlue
        /\ resolveField(a.fields[i], a.vars,
                        IF a.padding <= 0 THEN 3 ELSE a.padding) # << >>}

GlueBetween(a, i, j) == \E g \in DOMAIN a.fields : i < g /\ g < j /\ a.fields[g] = FieldGlue

\* the values of the tokens S in order, the separator before each one that
\* follows the value of token prev without a glue in between
RECURSIVE Joined(_, _, _)
Joined(a, prev, S) ==
    IF S = {} THEN << >>
    ELSE LET i == CHOOSE x \in S : \A y \in S : x <= y
             value == resolveField(a.fields[i], a.vars,
                                   IF a.padding <= 0 THEN 3 ELSE a.padding)
         IN  (IF prev = 0 \/ GlueBetween(a, prev, i) THEN << >>
              ELSE <<a.separator>>)
             \o <<value>> \o Joined(a, i, S \ {i})

\* C21: what GenerateFilenameFromFields writes is the non-empty values of its
\* tokens in order, the separator exactly once between two consecutive values
\* that have no glue token between them (empty values in between change
\* nothing), no separator before the first or after the last value, and then
\* "." and Ext.
C21_SeparatorBetweenValues ==
    (result # Nil /\ args.fn = "GenerateFilenameFromFields") =>
        Deref(result) = Joined(args, 0, Emitted(args)) \o << <<".">>, args.vars.Ext >>

\* a value, a glue, an empty value and a value: the two values are joined
C21_Witness ==
    /\ result # Nil /\ args.fn = "GenerateFilenameFromFields"
    /\ args.fields = <<FieldSeries, FieldGlue, FieldFiller, FieldEpNum>>
    /\ args.vars.Filler = << >> /\ args.vars.EpNum # << >>
    /\ Deref(result) = <<<<"S">>, <<"0", "0", "1">>, <<".">>, <<"m", "k", "v">>>>


\* --------------------------------------------------------------- matching

\* the text t is one the expression of a placeholder stands for
InLanguage(re, t) ==
    LET digits(u) == \A i \in DOMAIN u : u[i] \in Digit
        side(u)   == Len(u) \in {3, 4} /\ digits(u)
    IN  CASE re \in {".+?", ".+"} -> t # << >> /\ \A i \in DOMAIN t : t[i] # "\n"
          [] re \in {".*?", ".*"} -> \A i \in DOMAIN t : t[i] # "\n"
          [] re = "\\d+" -> t # << >> /\ digits(t)
          [] re = ResRegex ->
               \/ t # << >> /\ t[Len(t)] = "p" /\ side(SubSeq(t, 1, Len(t) - 1))
               \/ \E x \in DOMAIN t :
                    /\ t[x] = "x"
                    /\ side(SubSeq(t, 1, x - 1))
                    /\ side(SubSeq(t, x + 1, Len(t)))

\* the text s from position k on can be divided among the elements i.. of a
\* template, each placeholder taking a text it stands for
RECURSIVE Fits(_, _, _, _)
Fits(body, s, i, k) ==
    IF i > Len(body) THEN k = Len(s) + 1
    ELSE IF body[i].kind = "lit"
         THEN k <= Len(s) /\ s[k] = body[i].ch /\ Fits(body, s, i + 1, k + 1)
         ELSE \E n \in 0..(Len(s) - k + 1) :
                /\ InLanguage(body[i].re, SubSeq(s, k, k + n - 1))
                /\ Fits(body, s, i + 1, k + n)

BaseOf(filename) == TrimSuffix(filename, filepathExt(filename))

\* the first placeholder of the template, when only characters precede it
FirstGroup(body) ==
    CHOOSE g \in DOMAIN body :
        body[g].kind = "group" /\ \A j \in 1..(g - 1) : body[j].kind = "lit"

\* "[Subs] [v2] My show - 01.mkv" against
\* "[{{ANY}}] {{SERIES}} - {{EP_NUM}}.{{EXT}}" yields Any = "Subs",
\* Series = "[v2] My show", EpNum = "01" and Ext = "mkv"
BindsSubs ==
    (/\ result # Nil /\ args.fn = "Match"
     /\ args.template = TextTagged /\ args.filename = NameSubs) =>
        /\ Deref(result) # Nil
        /\ Deref(Deref(result)) =
             [n \in {"Any", "Series", "EpNum", "Ext"} |->
                CASE n = "Any"    -> <<"S", "u", "b", "s">>
                  [] n = "Series" -> <<"[", "v", "2", "]", " ", "M", "y", " ", "s", "h", "o", "w">>
                  [] n = "EpNum"  -> <<"0", "1">>
                  [] n = "Ext"    -> <<"m", "k", "v">>]

\* the first free-text placeholder of a template that matched holds the
\* shortest text with which the rest of the name still fits the rest of the
\* template
FirstIsShortest ==
    (/\ result # Nil /\ args.fn = "Match" /\ Deref(result) # Nil
     /\ args.template \in {TextTagged, TextRes, TextPair}) =>
        LET body == CompileBody(args.template)
            g    == FirstGroup(body)
            got  == Deref(Deref(result))[body[g].name]
        IN  \A n \in 0..(Len(got) - 1) :
              ~(/\ InLanguage(body[g].re, SubSeq(BaseOf(args.filename), g, g + n - 1))
                /\ Fits(body, BaseOf(args.filename), g + 1, g + n))

\* C22: matching "[Subs] [v2] My show - 01.mkv" against
\* "[{{ANY}}] {{SERIES}} - {{EP_NUM}}.{{EXT}}" binds Any = "Subs",
\* Series = "[v2] My show", EpNum = "01", Ext = "mkv", and the first free-text
\* placeholder of any template that matched holds the shortest capture that
\* lets the rest of the template match.
C22_ShortestCapture == BindsSubs /\ FirstIsShortest

C22_Witness ==
    /\ result # Nil /\ args.fn = "Match"
    /\ args.template = TextTagged /\ args.filename = NameSubs
    /\ Deref(result) # Nil
    /\ Deref(Deref(result))["Any"] = <<"S", "u", "b", "s">>


\* C23: Match and MatchTyped return a result exactly when the file name has
\* an extension and the whole of the name without it can be divided among the
\* elements of the template; otherwise they return nil (no fields).
C23_WholeNameOnly ==
    (result # Nil /\ args.fn \in {"Match", "MatchTyped"}) =>
        (Deref(result) # Nil <=>
            /\ filepathExt(args.filename) # << >>
            /\ Fits(CompileBody(args.template), BaseOf(args.filename), 1, 1))

\* a part of the name fits the template, the whole does not: no match
PartFits(template, s) ==
    \E i \in 1..(Len(s) + 1) : \E j \in (i - 1)..Len(s) :
        /\ j - i + 1 < Len(s)
        /\ Fits(CompileBody(template), SubSeq(s, i, j), 1, 1)

C23_Witness ==
    /\ result # Nil /\ args.fn = "MatchTyped" /\ Deref(result) = Nil
    /\ filepathExt(args.filename) # << >>
    /\ PartFits(args.template, BaseOf(args.filename))

\* a name without a dot: no match although all of it fits the template
C23_WitnessNoExt ==
    /\ result # Nil /\ args.fn = "Match" /\ Deref(result) = Nil
    /\ filepathExt(args.filename) = << >>
    /\ Fits(CompileBody(args.template), args.filename, 1, 1)


\* -------------------------------------------------------------- round trip

\* the value of the variable a group name stands for
VarOf(v, name) ==
    CASE name = "Series" -> v.Series
      [] name = "EpNum"  -> v.EpNum
      [] name = "EpName" -> v.EpName
      [] name = "Filler" -> v.Filler
      [] name = "Res"    -> v.Res
      [] name = "Ext"    -> v.Ext

\* every variable is a text its placeholder stands for
Consistent(template, v) ==
    /\ \A i \in DOMAIN CompileBody(template) :
         CompileBody(template)[i].kind = "group" =>
           InLanguage(CompileBody(template)[i].re,
                      VarOf(v, CompileBody(template)[i].name))
    /\ v.Ext # << >> /\ \A i \in DOMAIN v.Ext : v.Ext[i] \notin {".", "/"}

\* the match returned the variables, the episode number up to leading zeros
SameFields(got, v) ==
    \A name \in DOMAIN got :
        IF name = "EpNum"
        THEN /\ got[name] # << >>
             /\ \A i \in DOMAIN got[name] : got[name][i] \in Digit
             /\ Atoi(got[name]) = Atoi(v.EpNum)
        ELSE got[name] = VarOf(v, name)

\* the ways to divide s from position k on among the elements i.. of a
\* template: the sequences of texts its placeholders take
RECURSIVE Divisions(_, _, _, _)
Divisions(body, s, i, k) ==
    IF i > Len(body) THEN IF k = Len(s) + 1 THEN {<< >>} ELSE {}
    ELSE IF body[i].kind = "lit"
         THEN IF k <= Len(s) /\ s[k] = body[i].ch
              THEN Divisions(body, s, i + 1, k + 1) ELSE {}
         ELSE UNION {{<<SubSeq(s, k, k + n - 1)>> \o d :
                         d \in Divisions(body, s, i + 1, k + n)} :
                     n \in {m \in 0..(Len(s) - k + 1) :
                              InLanguage(body[i].re, SubSeq(s, k, k + m - 1))}}

Unambiguous(template, filename) ==
    Cardinality(Divisions(CompileBody(template), BaseOf(filename), 1, 1)) = 1

\* C24 as stated: for every template without duplicate placeholders and
\* every consistent set of variables, matching the generated name returns the
\* variables, the episode number up to zero-padding.
C24_RoundTripAlways ==
    (/\ result # Nil /\ args.fn = "RoundTrip"
     /\ Consistent(args.template, args.vars)) =>
        /\ Deref(result) # Nil
        /\ SameFields(Deref(Deref(result)), args.vars)

\* C24: for every template without duplicate placeholders and every
\* consistent set of variables whose generated name can be divided among the
\* elements of the template in one way only, matching the generated name
\* returns the variables, the episode number up to zero-padding; a name that
\* can be divided in several ways always matches, with the division of the
\* shortest leading captures.
C24_RoundTripUnambiguous ==
    (/\ result # Nil /\ args.fn = "RoundTrip"
     /\ Consistent(args.template, args.vars)) =>
        /\ Deref(result) # Nil
        /\ Unambiguous(args.template, Deref(loop)) =>
             SameFields(Deref(Deref(result)), args.vars)

\* a name with a title came back whole, the number padded
C24_Witness ==
    /\ result # Nil /\ args.fn = "RoundTrip" /\ args.template = TextTitled
    /\ Consistent(args.template, args.vars)
    /\ Unambiguous(args.template, Deref(loop))
    /\ Len(args.vars.Series) > 1 /\ Len(args.vars.EpName) > 1
    /\ Deref(result) # Nil
    /\ Deref(Deref(result))["EpNum"] # args.vars.EpNum
    /\ SameFields(Deref(Deref(result)), args.vars)


\* ------------------------------------------------------------- overwrites

\* the contents the directory shows
Contents(view) == {view[n] : n \in Names} \ {-1}

\* C25: no os.Rename of an Execute has a destination at which a file exists
\* at that moment, and every content the directory held when Execute started
\* is still in the directory when Execute has returned.
C25_NoRenameOntoExisting ==
    lastCmd = "Execute" =>
        /\ \A k \in DOMAIN renameCalls : ~renameCalls[k].replaced
        /\ pc = "idle" => Contents(pre.view) \subseteq Contents(View(files, content))


\* C26: after a Restore that follows the Execute whose Backup wrote the
\* manifest and that returned ok, every old name of the manifest that is in
\* the directory has the content it had when Backup ran, also when the file
\* never left its old name and its backup copy is a hard link of it.
C26_RestoreKeepsContent ==
    (/\ lastCmd = "Restore" /\ prevCmd = "Execute" /\ pc = "idle" /\ ret = "ok"
     /\ backupRet = "ok") =>
        \A q \in backupArg :
            files[D(q[1])] # Absent => content[files[D(q[1])]] = pre.view[q[1]]


\* C27: when the Backup of an Execute returns an error and the directory had
\* a backup with mappings.json and a registry record before, the backup
\* directory, its files, mappings.json and the registry are as they were.
C27_FailedBackupKeepsEarlier ==
    (/\ lastCmd = "Execute" /\ backupRet \notin {"none", "ok"}
     /\ pre.bdir /\ pre.manifest # Nil
     /\ \E k \in DOMAIN pre.registry : pre.registry[k].SourceDir = ThisDir) =>
        /\ bdir /\ manifest = pre.manifest
        /\ {n \in Names : files[B(n)] # Absent} = pre.backup
        /\ registry = pre.registry


\* ---------------------------------------------------------- pattern groups

\* the pattern group that declares the first template, in declaration order,
\* that compiles and matches the file
DeclaringGroup(n) == target.Patterns[GroupOfInput(target, 1, FirstDeclaredHit(n))]

\* the name the generator builds for an operation from the output
\* configuration of the pattern group g alone
NameBy(g, op) ==
    GenerateFilenameFromFields(
        g.Output.Fields,
        [EpNum  |-> op.Episode,
         EpName |-> Deref(GetEpisode(media, op.Episode)).Title,
         Ext    |-> op.SourcePath.ext],
        IF g.Output.Padding # 0 THEN g.Output.Padding ELSE AutoWidth)

\* C28: in a target with more than one pattern group (all templates of which
\* compile), the new name of every operation is the one the generator builds
\* from the output token list and the padding of the pattern group whose
\* template matched the file.
C28_OutputOfMatchedGroup ==
    (Len(target.Patterns) > 1 /\ ~SomeInvalid) =>
        \A i \in DOMAIN operations :
            operations[i].TargetPath
                = NameBy(DeclaringGroup(operations[i].SourcePath), operations[i])

\* C29: when a template of the target did not compile and one did, every
\* operation comes from the first template in declaration order that
\* compiled and matches its file, and the offset added to the episode and the
\* padding of the new name are those of the pattern group that declares that
\* template.
C29_GroupOfCompiledTemplate ==
    (SomeInvalid /\ SomeValid /\ Offset = Nil) =>
        \A i \in DOMAIN operations :
            LET n == operations[i].SourcePath
                g == DeclaringGroup(n)
                width == IF g.Output.Padding # 0 THEN g.Output.Padding ELSE AutoWidth
            IN  /\ DeclaredHits(n) # {}
                /\ operations[i].Episode = n.ep + g.Output.Offset
                /\ operations[i].TargetPath.w
                     = IF Digits(operations[i].Episode) > width
                       THEN Digits(operations[i].Episode) ELSE width


\* ---------------------------------------------------------------- registry

RecordsOf(dir) == {k \in DOMAIN registry : registry[k].SourceDir = dir}

\* one or two commands have run and each returned without an error (a
\* CleanAll that ignored a failed removal is the case of C14)
AllCallsOk ==
    /\ pc = "idle" /\ ret = "ok"
    /\ \/ runs = 1
       \/ runs = 2 /\ lastCmd = "Execute" /\ Deref(prevRun).ok
    /\ lastCmd = "CleanAll" => ioErr = << >>

\* C30: after calls of the Manager that all returned without an error the
\* registry has at most one record for a source directory, and it has a
\* record for a directory exactly when the backup directory of that directory
\* exists with its mappings.json.
C30_RegistryMatchesBackups ==
    AllCallsOk =>
        /\ Cardinality(RecordsOf(ThisDir)) <= 1
        /\ Cardinality(RecordsOf(OtherDir)) <= 1
        /\ HasRecord(ThisDir) <=> (bdir /\ manifest # Nil)
        /\ HasRecord(OtherDir) <=> otherBdir

====
